---------------------------- MODULE Spec2Model ----------------------------
(***************************************************************************)
(* Action dependency graph of the task panel: the task service            *)
(* (TaskService), the template service (ActionTemplateService) and the    *)
(* template editor (CreateActionTemplate).                                 *)
(*                                                                         *)
(* An action is a record [id, dependsOn, nextActions, completed]; an       *)
(* action collection is a sequence of actions (the `actions` array of a    *)
(* task, the `elements` array of a template).  An absent dependsOn or      *)
(* nextActions is the empty sequence: every reader in the source treats    *)
(* undefined and [] alike.                                                 *)
(***************************************************************************)
EXTENDS Integers, Sequences, FiniteSets, TLC

VARIABLES
    input,          \* argument handed to a pure function
    outcome,        \* what the pure function did with it
    task,           \* the stored task document (Firestore 'tasks' doc)
    template,       \* the stored template document ('actionTemplates' doc)
    last,           \* outcome of the last service call
    calls,          \* service calls in flight (interleaved specification)
    elementsByStep, \* template editor: step number -> actions of the step
    numSteps,       \* template editor: number of steps
    currentStep,    \* template editor: the step being edited
    editorError,    \* template editor: the error banner
    nextId          \* template editor: next fresh action id

vars == <<input, outcome, task, template, last, calls,
          elementsByStep, numSteps, currentStep, editorError, nextId>>

pureVars    == <<input, outcome>>
serviceVars == <<task, template, last, calls>>
editorVars  == <<elementsByStep, numSteps, currentStep, editorError, nextId>>

----------------------------------------------------------------------------
(* Bounds *)

\* ids are 1..MaxId; a collection holds at most MaxEdges dependsOn entries
MaxId == 3
MaxEdges == 3

IdUniverse == 1..MaxId

----------------------------------------------------------------------------
(* Sequence helpers: the Array methods the source uses *)

Range(s) == {s[k] : k \in 1..Len(s)}

includes(s, x) == x \in Range(s)

NoDup(s) == \A i, j \in 1..Len(s) : i # j => s[i] # s[j]

RECURSIVE filterSeq(_, _, _)
filterSeq(s, keep, k) ==
    IF k > Len(s) THEN <<>>
    ELSE IF s[k] \in keep
         THEN <<s[k]>> \o filterSeq(s, keep, k + 1)
         ELSE filterSeq(s, keep, k + 1)

\* s.filter(x => x \in keep), order preserved
filter(s, keep) == filterSeq(s, keep, 1)

SeqsUpTo(S, n) == UNION {[1..k -> S] : k \in 0..n}

----------------------------------------------------------------------------
(* Actions and collections *)

NoAction == [id |-> 0]

MkAction(i, deps) ==
    [id |-> i, dependsOn |-> deps, nextActions |-> <<>>, completed |-> FALSE]

Ids(actions) == {actions[k].id : k \in 1..Len(actions)}

\* actions.find(a => a.id === id)
find(actions, id) ==
    IF \E k \in 1..Len(actions) : actions[k].id = id
    THEN LET k == CHOOSE k \in 1..Len(actions) :
                      /\ actions[k].id = id
                      /\ \A j \in 1..(k - 1) : actions[j].id # id
         IN  actions[k]
    ELSE NoAction

\* new Map(actions.map(a => [a.id, a])).get(id) : the last entry wins
actionMapGet(actions, id) ==
    IF \E k \in 1..Len(actions) : actions[k].id = id
    THEN LET k == CHOOSE k \in 1..Len(actions) :
                      /\ actions[k].id = id
                      /\ \A j \in (k + 1)..Len(actions) : actions[j].id # id
         IN  actions[k]
    ELSE NoAction

\* the subsets of S of at most n elements
RECURSIVE SubsetsUpTo(_, _)
SubsetsUpTo(S, n) ==
    IF n = 0 THEN {{}}
    ELSE LET P == SubsetsUpTo(S, n - 1)
         IN  P \cup {p \cup {x} : p \in P, x \in S}

\* the orders a set of ids can be listed in
Perms(S) == {s \in [1..Cardinality(S) -> S] : NoDup(s)}

RECURSIVE SortedSeq(_)
SortedSeq(S) ==
    IF S = {} THEN <<>>
    ELSE LET m == CHOOSE x \in S : \A y \in S : x <= y
         IN  <<m>> \o SortedSeq(S \ {m})

Ascending(s) == \A i, j \in 1..Len(s) : i < j => s[i] < s[j]

\* the id arrays of a collection of n <= MaxId actions: the ids 1..n in
\* every order (the code compares ids for equality only, so which ids an
\* array holds does not matter; the ids n+1..MaxId belong to no action)
IdArrays == UNION {Perms(1..n) : n \in 0..MaxId}

\* the dependsOn edges a collection with ids a can hold, at most e of them,
\* into the ids 1..m
EdgeSetsInto(a, m, e) == SubsetsUpTo(Range(a) \X (1..m), e)

EdgeSets(a, e) == EdgeSetsInto(a, MaxId, e)

Out(E, i) == {e[2] : e \in {x \in E : x[1] = i}}

\* the collections with ids a (from position k on) and edges E, each
\* dependsOn in every order
RECURSIVE WithEdges(_, _, _)
WithEdges(a, E, k) ==
    IF k > Len(a) THEN {<<>>}
    ELSE {<<MkAction(a[k], deps)>> \o rest :
             deps \in Perms(Out(E, a[k])), rest \in WithEdges(a, E, k + 1)}

\* c is a collection of actions with distinct ids, in any array order,
\* with at most e dependsOn entries, each dependsOn in any order (ids of
\* no action of the collection included)
IsCollection(c, e) ==
    \E a \in IdArrays : \E E \in EdgeSets(a, e) : c \in WithEdges(a, E, 1)

\* collections up to the order of the array and of each dependsOn: both
\* ascending (the task operations read the array through find / filter /
\* map on ids and dependsOn through every / includes)
TaskCollectionsOver(m, e) ==
    UNION { { [k \in 1..Len(a) |-> MkAction(a[k], SortedSeq(Out(E, a[k])))]
              : E \in EdgeSetsInto(a, m, e) }
            : a \in {SortedSeq(1..n) : n \in 0..m} }

TaskCollections(e) == TaskCollectionsOver(MaxId, e)

\* scenario 1 of the specification: A, B(A), C(A), D(B, C) with A..D = 1..4
Scenario1 ==
    << MkAction(1, <<>>), MkAction(2, <<1>>),
       MkAction(3, <<1>>), MkAction(4, <<2, 3>>) >>

----------------------------------------------------------------------------
(* The dependsOn relation, stated independently of any traversal *)

DependsEdges(actions) ==
    UNION { {<<actions[k].id, d>> : d \in Range(actions[k].dependsOn)}
            : k \in 1..Len(actions) }

RECURSIVE ReachFrom(_, _)
ReachFrom(E, S) ==
    LET T == S \cup {e[2] : e \in {x \in E : x[1] \in S}}
    IN  IF T = S THEN S ELSE ReachFrom(E, T)

\* ids reachable from id along one or more edges
Successors(E, id) == ReachFrom(E, {e[2] : e \in {x \in E : x[1] = id}})

HasCycle(actions) ==
    \E id \in Ids(actions) : id \in Successors(DependsEdges(actions), id)

Acyclic(actions) == ~HasCycle(actions)

\* referential integrity: every id in a dependsOn is an action's id
Intact(actions) ==
    \A k \in 1..Len(actions) : Range(actions[k].dependsOn) \subseteq Ids(actions)

----------------------------------------------------------------------------
(* checkForDependencyCycles: the recursive traversal that TaskService,     *)
(* CreateActionTemplate and ActionTemplateService each carry a copy of.    *)
(* A traversal state is [visited, recursionStack, thrown, pair, ret]:      *)
(* thrown is the `throw new Error(...)`, pair the two ids the message      *)
(* names, ret the boolean the last checkCycle call returned.               *)

DfsStart ==
    [visited |-> {}, recursionStack |-> {}, thrown |-> FALSE,
     pair |-> <<>>, ret |-> FALSE]

\* the edges the traversal follows out of actionId: action?.<field>
EdgesOf(actions, field, actionId) ==
    LET action == actionMapGet(actions, actionId)
    IN  IF action = NoAction THEN <<>>
        ELSE IF field = "nextActions" THEN action.nextActions
        ELSE action.dependsOn

RECURSIVE checkCycle(_, _, _, _), checkCycleLoop(_, _, _, _, _, _)

\* const checkCycle = (actionId) => { ... }
checkCycle(actions, field, actionId, st) ==
    IF actionId \in st.visited
    THEN [st EXCEPT !.ret = FALSE]
    ELSE LET entered == [st EXCEPT !.visited = @ \cup {actionId},
                                   !.recursionStack = @ \cup {actionId}]
             after == checkCycleLoop(actions, field, actionId,
                                     EdgesOf(actions, field, actionId), 1,
                                     entered)
         IN  IF after.thrown \/ after.ret
             THEN after
             ELSE [after EXCEPT !.recursionStack = @ \ {actionId},
                                !.ret = FALSE]

\* for (const depId of action.dependsOn) { ... } from position k on
checkCycleLoop(actions, field, actionId, deps, k, st) ==
    IF k > Len(deps)
    THEN [st EXCEPT !.ret = FALSE]
    ELSE LET depId == deps[k]
             called == IF depId \notin st.visited
                       THEN checkCycle(actions, field, depId, st)
                       ELSE [st EXCEPT !.ret = FALSE]
         IN  IF called.thrown
             THEN called
             ELSE IF depId \notin st.visited /\ called.ret
             THEN [called EXCEPT !.ret = TRUE]
             ELSE IF depId \in called.recursionStack
             THEN [called EXCEPT !.thrown = TRUE,
                                 !.pair = <<actionId, depId>>]
             ELSE checkCycleLoop(actions, field, actionId, deps, k + 1,
                                 called)

\* a check that starts no traversal
checkRoots_NoTraversal(actions, field, k, st) == st

RECURSIVE checkRoots(_, _, _, _)
\* for (const action of actions) if (!visited.has(action.id)) checkCycle(..)
checkRoots(actions, field, k, st) ==
    IF st.thrown \/ k > Len(actions)
    THEN st
    ELSE IF actions[k].id \notin st.visited
         THEN checkRoots(actions, field, k + 1,
                         checkCycle(actions, field, actions[k].id, st))
         ELSE checkRoots(actions, field, k + 1, st)

\* the traversal started at the first action of the array only
TaskService_checkFirstRootOnly(actions) ==
    IF Len(actions) = 0 THEN DfsStart
    ELSE checkCycle(actions, "dependsOn", actions[1].id, DfsStart)

\* TaskService.checkForDependencyCycles: follows dependsOn
TaskService_checkForDependencyCycles(actions) ==
    checkRoots(actions, "dependsOn", 1, DfsStart)

\* a check that takes an action reached a second time for a cycle: it
\* throws as soon as two actions share a dependency
Editor_checkRevisitThrows(actions) ==
    [DfsStart EXCEPT !.thrown =
        \/ HasCycle(actions)
        \/ \E e, f \in DependsEdges(actions) : e[1] # f[1] /\ e[2] = f[2]]

\* CreateActionTemplate.checkForDependencyCycles: follows dependsOn
Editor_checkForDependencyCycles(actions) ==
    checkRoots(actions, "dependsOn", 1, DfsStart)

\* ActionTemplateService.checkForDependencyCycles: follows nextActions
TemplateService_checkForDependencyCycles(actions) ==
    checkRoots(actions, "nextActions", 1, DfsStart)

\* the existence loop of validateActionDependencies (both services)
DependenciesExist(actions) ==
    \A k \in 1..Len(actions) :
        \A d \in Range(actions[k].dependsOn) : d \in Ids(actions)

\* TaskService.validateActionDependencies: TRUE when it throws
TaskService_validateActionDependencies(actions) ==
    \/ ~DependenciesExist(actions)
    \/ TaskService_checkForDependencyCycles(actions).thrown

\* ActionTemplateService.validateActionDependencies: TRUE when it throws
TemplateService_validateActionDependencies(actions) ==
    \/ ~DependenciesExist(actions)
    \/ \E k \in 1..Len(actions) :
           \E n \in Range(actions[k].nextActions) : n \notin Ids(actions)
    \/ TemplateService_checkForDependencyCycles(actions).thrown

----------------------------------------------------------------------------
(* Idle values of the state a specification does not use *)

NoDoc == [exists |-> FALSE]
NoCall == [op |-> "none"]
NoOutcome == [fn |-> "none"]

PureIdle == input = <<>> /\ outcome = NoOutcome
ServiceIdle ==
    /\ task = NoDoc /\ template = NoDoc /\ last = NoCall /\ calls = <<>>
EditorIdle ==
    /\ elementsByStep = <<>> /\ numSteps = 0 /\ currentStep = 0
    /\ editorError = FALSE /\ nextId = 0

----------------------------------------------------------------------------
(* SpecCycle: the cycle checks as pure functions of a collection *)

InitCycle ==
    /\ (IsCollection(input, MaxEdges) \/ input = Scenario1)
    /\ outcome = NoOutcome
    /\ ServiceIdle
    /\ EditorIdle

RunTaskServiceCheck ==
    /\ outcome = NoOutcome
    /\ outcome' = [fn |-> "TaskService.checkForDependencyCycles",
                   thrown |-> TaskService_checkForDependencyCycles(input).thrown,
                   pair |-> TaskService_checkForDependencyCycles(input).pair]
    /\ UNCHANGED <<input, serviceVars, editorVars>>

RunEditorCheck ==
    /\ outcome = NoOutcome
    /\ outcome' = [fn |-> "CreateActionTemplate.checkForDependencyCycles",
                   thrown |-> Editor_checkForDependencyCycles(input).thrown,
                   pair |-> Editor_checkForDependencyCycles(input).pair]
    /\ UNCHANGED <<input, serviceVars, editorVars>>

NextCycle ==
    \/ RunTaskServiceCheck
    \/ RunEditorCheck

SpecCycle == InitCycle /\ [][NextCycle]_vars

\* C2: a collection whose dependsOn relation contains a cycle (a
\* self-dependency, or a cycle away from the first action of the array,
\* included) makes checkForDependencyCycles throw, in every array order.
C2_CycleAlwaysReported ==
    (outcome.fn \in {"TaskService.checkForDependencyCycles",
                     "CreateActionTemplate.checkForDependencyCycles"}
     /\ HasCycle(input))
        => outcome.thrown

\* a cycle that the first action of the array does not reach, reported
C2_Witness ==
    /\ outcome.fn = "TaskService.checkForDependencyCycles"
    /\ Len(input) = 3
    /\ HasCycle(input)
    /\ input[1].dependsOn = <<>>
    /\ input[2].dependsOn = <<input[3].id>>
    /\ input[3].dependsOn = <<input[2].id>>
    /\ outcome.thrown

\* C16: a collection whose dependsOn relation is acyclic (a diamond, where
\* one action is reached along two dependency paths, included) passes
\* checkForDependencyCycles: the check returns without throwing.
C16_AcyclicAccepted ==
    (outcome.fn \in {"TaskService.checkForDependencyCycles",
                     "CreateActionTemplate.checkForDependencyCycles"}
     /\ Acyclic(input))
        => ~outcome.thrown

\* the diamond of scenario 1 passes the editor's check
C16_Witness ==
    /\ outcome.fn = "CreateActionTemplate.checkForDependencyCycles"
    /\ input = Scenario1
    /\ ~outcome.thrown

----------------------------------------------------------------------------
(* SpecWrite: the TaskService operations that write the actions array of   *)
(* a task document.  The submitted array is `input`; createTask is also    *)
(* called without actions.                                                  *)

Statuses == {"pending", "in_progress", "waiting_approval", "completed",
             "blocked"}

TaskDoc(actions, status) ==
    [exists |-> TRUE, actions |-> actions, status |-> status]

WriteCall(op, submitted, threw) ==
    [op |-> op, submitted |-> submitted, threw |-> threw, wrote |-> ~threw]

InitWrite ==
    /\ IsCollection(input, MaxEdges)
    /\ outcome = NoOutcome
    /\ task = NoDoc
    /\ template = NoDoc
    /\ last = NoCall
    /\ calls = <<>>
    /\ EditorIdle

\* a createTask whose validation looks for cycles only
createTaskThrows_CyclesOnly(actions) ==
    Len(actions) > 0 /\ TaskService_checkForDependencyCycles(actions).thrown

\* createTask validates only a non-empty actions array
createTaskThrows(actions) ==
    Len(actions) > 0 /\ TaskService_validateActionDependencies(actions)

\* createTask(taskData): validates a non-empty actions array, then setDoc
CreateTask(actions) ==
    /\ ~task.exists
    /\ IF createTaskThrows(actions)
       THEN /\ last' = WriteCall("createTask", actions, TRUE)
            /\ UNCHANGED task
       ELSE /\ task' = TaskDoc(actions, "pending")
            /\ last' = WriteCall("createTask", actions, FALSE)
    /\ UNCHANGED <<pureVars, template, calls, editorVars>>

updateTaskThrows(actions) ==
    ~task.exists \/ TaskService_validateActionDependencies(actions)

\* updateTask(taskId, {actions}): "Task not found", validation, updateDoc
UpdateTask(actions) ==
    /\ IF updateTaskThrows(actions)
       THEN /\ last' = WriteCall("updateTask", actions, TRUE)
            /\ UNCHANGED task
       ELSE /\ task' = [task EXCEPT !.actions = actions]
            /\ last' = WriteCall("updateTask", actions, FALSE)
    /\ UNCHANGED <<pureVars, template, calls, editorVars>>

\* batchUpdateTasks([{taskId, data: {actions}}]): batch.update, commit; the
\* commit of an update to a document that does not exist is rejected
BatchUpdateTasks(actions) ==
    /\ IF ~task.exists
       THEN /\ last' = WriteCall("batchUpdateTasks", actions, TRUE)
            /\ UNCHANGED task
       ELSE /\ task' = [task EXCEPT !.actions = actions]
            /\ last' = WriteCall("batchUpdateTasks", actions, FALSE)
    /\ UNCHANGED <<pureVars, template, calls, editorVars>>

NextWrite ==
    \/ \E a \in {<<>>, input} : CreateTask(a)
    \/ UpdateTask(input)
    \/ BatchUpdateTasks(input)

SpecWrite == InitWrite /\ [][NextWrite]_vars

\* C4: every actions array that createTask, updateTask or batchUpdateTasks
\* wrote to the task document is referentially intact and acyclic.
C4_WrittenArraysValid ==
    (last.op \in {"createTask", "updateTask", "batchUpdateTasks"}
     /\ last.wrote)
        => Intact(task.actions) /\ Acyclic(task.actions)

\* C17: createTask and updateTask throw, and leave the task document as it
\* was (absent, for createTask), whenever some dependsOn of the submitted
\* actions array holds an id of no action of that array.
C17_DanglingReferenceRejected ==
    [][(last'.op \in {"createTask", "updateTask"} /\ ~Intact(last'.submitted))
         => (last'.threw /\ ~last'.wrote /\ task' = task)]_vars

\* an acyclic array with a dangling dependsOn id submitted to updateTask
\* for an existing task, and rejected
C17_Witness ==
    /\ last.op = "updateTask"
    /\ task.exists
    /\ ~Intact(last.submitted)
    /\ Acyclic(last.submitted)
    /\ last.threw
    /\ task.actions # last.submitted

----------------------------------------------------------------------------
(* SpecTemplate: ActionTemplateService.createActionTemplate on a submitted *)
(* elements array whose actions carry dependsOn and nextActions.            *)

\* at most MaxNext nextActions entries in a submitted elements array
MaxNext == 1

\* the elements arrays: a task collection (ids in ascending order, at most
\* e dependsOn entries) with at most n nextActions entries
TemplateCollections(e, n) ==
    UNION { { [k \in 1..Len(c) |->
                 [c[k] EXCEPT !.nextActions = SortedSeq(Out(N, c[k].id))]]
              : N \in SubsetsUpTo(Ids(c) \X IdUniverse, n) }
            : c \in TaskCollections(e) }

InitTemplate ==
    /\ input \in TemplateCollections(MaxEdges, MaxNext)
    /\ outcome = NoOutcome
    /\ task = NoDoc
    /\ template = NoDoc
    /\ last = NoCall
    /\ calls = <<>>
    /\ EditorIdle

\* createActionTemplate(templateData): validation, then setDoc
CreateActionTemplate ==
    /\ last = NoCall
    /\ IF TemplateService_validateActionDependencies(input)
       THEN /\ last' = WriteCall("createActionTemplate", input, TRUE)
            /\ UNCHANGED template
       ELSE /\ template' = [exists |-> TRUE, elements |-> input]
            /\ last' = WriteCall("createActionTemplate", input, FALSE)
    /\ UNCHANGED <<pureVars, task, calls, editorVars>>

NextTemplate == CreateActionTemplate

SpecTemplate == InitTemplate /\ [][NextTemplate]_vars

\* C5: createActionTemplate throws and writes no template document when
\* the dependsOn relation of the submitted elements contains a cycle.
C5_CyclicTemplateRejected ==
    (last.op = "createActionTemplate" /\ HasCycle(last.submitted))
        => last.threw /\ ~template.exists

----------------------------------------------------------------------------
(* Availability and completion over one snapshot of the actions array *)

\* dependsOn.every(depId => { dep = actions.find(..); return dep && dep.completed })
everyDependencyCompleted(actions, action) ==
    \A depId \in Range(action.dependsOn) :
        LET dependency == find(actions, depId)
        IN  dependency # NoAction /\ dependency.completed

\* the filter that returns an action as soon as one dependency is completed
isAvailable_SomeDependency(actions, action) ==
    IF action.completed THEN FALSE
    ELSE IF Len(action.dependsOn) = 0 THEN TRUE
    ELSE \E depId \in Range(action.dependsOn) :
            LET dependency == find(actions, depId)
            IN  dependency # NoAction /\ dependency.completed

\* the filter of getAvailableActions
isAvailable(actions, action) ==
    IF action.completed THEN FALSE
    ELSE IF Len(action.dependsOn) = 0 THEN TRUE
    ELSE everyDependencyCompleted(actions, action)

\* the blockedActions filter without its `if (action.completed)` line
isBlocked_CompletedNotSkipped(actions, action) ==
    IF Len(action.dependsOn) = 0 THEN FALSE
    ELSE ~everyDependencyCompleted(actions, action)

\* the blockedActions filter of getTaskWorkflowStats
isBlocked(actions, action) ==
    IF action.completed THEN FALSE
    ELSE IF Len(action.dependsOn) = 0 THEN FALSE
    ELSE ~everyDependencyCompleted(actions, action)

getAvailableActions(actions) ==
    SelectSeq(actions, LAMBDA a : isAvailable(actions, a))

getTaskWorkflowStats(actions) ==
    [fn |-> "getTaskWorkflowStats",
     totalActions |-> Len(actions),
     completedActions |-> Len(SelectSeq(actions, LAMBDA a : a.completed)),
     nextActions |-> getAvailableActions(actions),
     blockedActions |-> SelectSeq(actions, LAMBDA a : isBlocked(actions, a))]

\* WorkflowVisualizer.getActionStatusClass for an action that is not the
\* highlighted one
getActionStatusClass(actions, action) ==
    IF action.completed THEN "bg-green-50"
    ELSE IF \/ Len(action.dependsOn) = 0
            \/ everyDependencyCompleted(actions, action)
         THEN "bg-blue-50"
         ELSE "bg-gray-50"

WithCompleted(actions, done) ==
    [k \in 1..Len(actions) |->
        [actions[k] EXCEPT !.completed = (actions[k].id \in done)]]

CompletedIds(actions) ==
    {actions[k].id : k \in {j \in 1..Len(actions) : actions[j].completed}}

----------------------------------------------------------------------------
(* SpecStats: the availability classification as a pure function of a      *)
(* snapshot, for every collection and every assignment of completed flags  *)

InitStats ==
    /\ \E c \in TaskCollections(MaxEdges) \cup {Scenario1} :
           \E done \in SUBSET Ids(c) : input = WithCompleted(c, done)
    /\ outcome = NoOutcome
    /\ ServiceIdle
    /\ EditorIdle

GetAvailableActions ==
    /\ outcome = NoOutcome
    /\ outcome' = [fn |-> "getAvailableActions",
                   actions |-> getAvailableActions(input)]
    /\ UNCHANGED <<input, serviceVars, editorVars>>

GetTaskWorkflowStats ==
    /\ outcome = NoOutcome
    /\ outcome' = getTaskWorkflowStats(input)
    /\ UNCHANGED <<input, serviceVars, editorVars>>

GetActionStatusClass ==
    /\ outcome = NoOutcome
    /\ outcome' = [fn |-> "getActionStatusClass",
                   class |-> [k \in 1..Len(input) |->
                                 getActionStatusClass(input, input[k])]]
    /\ UNCHANGED <<input, serviceVars, editorVars>>

NextStats ==
    \/ GetAvailableActions
    \/ GetTaskWorkflowStats
    \/ GetActionStatusClass

SpecStats == InitStats /\ [][NextStats]_vars

\* the three classes, stated on the flags alone
SomeDependencyIncomplete(actions, action) ==
    \E d \in Range(action.dependsOn) : d \notin CompletedIds(actions)

\* C8: from one snapshot every action is in exactly one of: completed;
\* available (nextActions: not completed, every dependency completed);
\* blocked (blockedActions: not completed, some dependency not completed);
\* the visualizer colours the three classes the same way.
C8_ExactlyOneClass ==
    /\ outcome.fn = "getTaskWorkflowStats" =>
         \A k \in 1..Len(input) :
            LET a == input[k]
                inNext == a.id \in Ids(outcome.nextActions)
                inBlocked == a.id \in Ids(outcome.blockedActions)
            IN  /\ Cardinality({c \in {"completed", "next", "blocked"} :
                                  \/ c = "completed" /\ a.completed
                                  \/ c = "next" /\ inNext
                                  \/ c = "blocked" /\ inBlocked}) = 1
                /\ inNext <=> (~a.completed
                               /\ ~SomeDependencyIncomplete(input, a))
                /\ inBlocked <=> (~a.completed
                                  /\ SomeDependencyIncomplete(input, a))
    /\ outcome.fn = "getAvailableActions" =>
         Ids(outcome.actions) =
            {input[k].id : k \in {j \in 1..Len(input) :
                 /\ ~input[j].completed
                 /\ ~SomeDependencyIncomplete(input, input[j])}}
    /\ outcome.fn = "getActionStatusClass" =>
         \A k \in 1..Len(input) :
            outcome.class[k] =
               IF input[k].completed THEN "bg-green-50"
               ELSE IF SomeDependencyIncomplete(input, input[k])
                    THEN "bg-gray-50" ELSE "bg-blue-50"

\* scenario 1 with A completed: A completed, B and C next, D blocked
C8_Witness ==
    /\ outcome.fn = "getTaskWorkflowStats"
    /\ Len(input) = 4
    /\ CompletedIds(input) = {1}
    /\ Ids(outcome.nextActions) = {2, 3}
    /\ Ids(outcome.blockedActions) = {4}

----------------------------------------------------------------------------
(* completeTaskAction / uncompleteTaskAction on a snapshot of the task *)

\* the dependency check that accepts a dependsOn id of no action
completeRejected_MissingAccepted(actions, actionToComplete) ==
    /\ Len(actionToComplete.dependsOn) > 0
    /\ \E depId \in Range(actionToComplete.dependsOn) :
          LET dependency == find(actions, depId)
          IN  dependency # NoAction /\ ~dependency.completed

\* "Cannot complete this action until all dependencies are completed"
completeRejected(actions, actionToComplete) ==
    /\ Len(actionToComplete.dependsOn) > 0
    /\ ~everyDependencyCompleted(actions, actionToComplete)

\* taskData.actions.map(action => action.id === actionId ? {...} : action)
setCompleted(actions, actionId, value) ==
    [k \in 1..Len(actions) |->
        IF actions[k].id = actionId
        THEN [actions[k] EXCEPT !.completed = value]
        ELSE actions[k]]

\* the actions completeTaskAction announces as newly available
dependentActions(updatedActions, actionId) ==
    SelectSeq(updatedActions,
              LAMBDA a : includes(a.dependsOn, actionId) /\ ~a.completed)

\* uncomplete's search that forgets the completed flag of the dependents
completedDependents_None(actions, actionId) == <<>>

\* the completed actions that list actionId in their dependsOn
completedDependents(actions, actionId) ==
    SelectSeq(actions,
              LAMBDA a : includes(a.dependsOn, actionId) /\ a.completed)

\* the status transition taken whatever the status was
statusAfterComplete_Unguarded(updatedActions, status) ==
    IF \A k \in 1..Len(updatedActions) : updatedActions[k].completed
    THEN "waiting_approval"
    ELSE status

\* allActionsCompleted && taskData.status === 'in_progress'
statusAfterComplete(updatedActions, status) ==
    IF /\ \A k \in 1..Len(updatedActions) : updatedActions[k].completed
       /\ status = "in_progress"
    THEN "waiting_approval"
    ELSE status

\* taskData.status === 'waiting_approval' -> 'in_progress'
statusAfterUncomplete(status) ==
    IF status = "waiting_approval" THEN "in_progress" ELSE status

\* the error a completeTaskAction call ends with on this snapshot
completeError(snap, actionId) ==
    IF ~snap.exists THEN "Task not found"
    ELSE IF find(snap.actions, actionId) = NoAction
    THEN "Action not found in task"
    ELSE IF completeRejected(snap.actions, find(snap.actions, actionId))
    THEN "Cannot complete this action until all dependencies are completed"
    ELSE "none"

\* the error an uncompleteTaskAction call ends with on this snapshot
uncompleteError(snap, actionId) ==
    IF ~snap.exists THEN "Task not found"
    ELSE IF find(snap.actions, actionId) = NoAction
    THEN "Action not found in task"
    ELSE IF Len(completedDependents(snap.actions, actionId)) > 0
    THEN "Cannot uncomplete this action because other completed actions depend on it"
    ELSE "none"

----------------------------------------------------------------------------
(* SpecTask: the task service called sequentially on one task (each call   *)
(* runs to its end before the next starts).  The task starts with any      *)
(* actions array and no completed action.                                   *)

ServiceCall(op, actionId, error, before, reported) ==
    [op |-> op, actionId |-> actionId, error |-> error,
     threw |-> (error # "none"), before |-> before, reported |-> reported]

InitTask ==
    /\ \E c \in TaskCollections(MaxEdges) \cup {Scenario1} : task = TaskDoc(c, "pending")
    /\ template = NoDoc
    /\ last = NoCall
    /\ calls = <<>>
    /\ PureIdle
    /\ EditorIdle

CompleteTaskAction(actionId) ==
    LET error == completeError(task, actionId)
        updatedActions == setCompleted(task.actions, actionId, TRUE)
    IN  /\ IF error # "none"
           THEN /\ last' = ServiceCall("completeTaskAction", actionId, error,
                                       task, <<>>)
                /\ UNCHANGED task
           ELSE /\ task' = [task EXCEPT
                              !.actions = updatedActions,
                              !.status = statusAfterComplete(updatedActions,
                                                             task.status)]
                /\ last' = ServiceCall("completeTaskAction", actionId, error,
                              task, dependentActions(updatedActions, actionId))
        /\ UNCHANGED <<pureVars, template, calls, editorVars>>

UncompleteTaskAction(actionId) ==
    LET error == uncompleteError(task, actionId)
    IN  /\ IF error # "none"
           THEN /\ last' = ServiceCall("uncompleteTaskAction", actionId, error,
                                       task, <<>>)
                /\ UNCHANGED task
           ELSE /\ task' = [task EXCEPT
                              !.actions = setCompleted(task.actions, actionId,
                                                       FALSE),
                              !.status = statusAfterUncomplete(task.status)]
                /\ last' = ServiceCall("uncompleteTaskAction", actionId, error,
                                       task, <<>>)
        /\ UNCHANGED <<pureVars, template, calls, editorVars>>

\* updateTask(taskId, {status})
UpdateTaskStatus(status) ==
    /\ task.exists
    /\ task' = [task EXCEPT !.status = status]
    /\ last' = [op |-> "updateTask", status |-> status]
    /\ UNCHANGED <<pureVars, template, calls, editorVars>>

CallIds == IdUniverse \cup Ids(task.actions)

NextTask ==
    \/ \E id \in CallIds : CompleteTaskAction(id)
    \/ \E id \in CallIds : UncompleteTaskAction(id)
    \/ \E st \in Statuses : UpdateTaskStatus(st)

SpecTask == InitTask /\ [][NextTask]_vars

\* the action with this id, by position
ActionOf(actions, id) ==
    actions[CHOOSE k \in 1..Len(actions) : actions[k].id = id]

\* C6: completeTaskAction throws and writes nothing whenever some id in the
\* target's dependsOn is the id of an action that is not completed, or of
\* no action of the task.
C6_UnsatisfiedDependencyRejected ==
    (/\ last.op = "completeTaskAction"
     /\ last.actionId \in Ids(last.before.actions)
     /\ \E d \in Range(ActionOf(last.before.actions, last.actionId).dependsOn) :
            d \notin CompletedIds(last.before.actions))
        => last.threw /\ task = last.before

\* a completion refused because of a dependsOn id of no action
C6_Witness ==
    /\ last.op = "completeTaskAction"
    /\ last.actionId \in Ids(last.before.actions)
    /\ \E d \in Range(ActionOf(last.before.actions, last.actionId).dependsOn) :
            d \notin Ids(last.before.actions)
    /\ \A d \in Range(ActionOf(last.before.actions, last.actionId).dependsOn) :
            d \in Ids(last.before.actions) => d \in CompletedIds(last.before.actions)
    /\ CompletedIds(last.before.actions) # {}
    /\ last.threw
    /\ task = last.before

\* C7: uncompleteTaskAction throws and writes nothing when a completed
\* action lists the target in its dependsOn; otherwise it succeeds, clears
\* the target's completed flag and leaves every other action as it was.
C7_UncompleteGuard ==
    (last.op = "uncompleteTaskAction"
     /\ last.actionId \in Ids(last.before.actions))
        => LET dependents ==
                   {k \in 1..Len(last.before.actions) :
                       /\ last.before.actions[k].completed
                       /\ last.actionId \in
                              Range(last.before.actions[k].dependsOn)}
           IN  IF dependents # {}
               THEN last.threw /\ task = last.before
               ELSE /\ ~last.threw
                    /\ Len(task.actions) = Len(last.before.actions)
                    /\ \A k \in 1..Len(task.actions) :
                          IF task.actions[k].id = last.actionId
                          THEN ~task.actions[k].completed
                          ELSE task.actions[k] = last.before.actions[k]

\* scenario 5: D uncompleted while B and C are completed, which they stay
C7_Witness ==
    /\ last.op = "uncompleteTaskAction"
    /\ last.actionId = 4
    /\ CompletedIds(last.before.actions) = {1, 2, 3, 4}
    /\ ~last.threw
    /\ CompletedIds(task.actions) = {1, 2, 3}

\* scenario 6: uncompleting B while D is completed fails
C7_WitnessRefused ==
    /\ last.op = "uncompleteTaskAction"
    /\ last.actionId = 2
    /\ CompletedIds(last.before.actions) = {1, 2, 3, 4}
    /\ last.threw
    /\ task = last.before

AvailableIds(actions) ==
    {actions[k].id : k \in {j \in 1..Len(actions) :
        /\ ~actions[j].completed
        /\ ~SomeDependencyIncomplete(actions, actions[j])}}

\* C9: the actions completeTaskAction announces as newly available after
\* completing X are exactly those available after the completion that were
\* not available before it (stated for the arrays validation accepts:
\* referentially intact and acyclic).
C9_ReportedAreNewlyAvailable ==
    (/\ last.op = "completeTaskAction"
     /\ ~last.threw
     /\ Intact(task.actions)
     /\ Acyclic(task.actions))
        => Ids(last.reported) =
              AvailableIds(task.actions) \ AvailableIds(last.before.actions)

\* C10 as stated: a successful completeTaskAction that leaves every action
\* completed sets the status to waiting_approval, whatever it was before.
C10_AllCompletedAlwaysWaitingApproval ==
    (/\ last.op = "completeTaskAction"
     /\ ~last.threw
     /\ CompletedIds(task.actions) = Ids(task.actions))
        => task.status = "waiting_approval"

\* C10 amended: a successful completeTaskAction that leaves every action
\* completed sets the status to waiting_approval when the status it read
\* was in_progress; with any other status (pending, the status of a new
\* task, included) it leaves the status as it was.
C10_WaitingApprovalFromInProgress ==
    (/\ last.op = "completeTaskAction"
     /\ ~last.threw
     /\ CompletedIds(task.actions) = Ids(task.actions))
        => task.status = IF last.before.status = "in_progress"
                         THEN "waiting_approval"
                         ELSE last.before.status

\* the last action of an in_progress task completed
C10_Witness ==
    /\ last.op = "completeTaskAction"
    /\ ~last.threw
    /\ Len(task.actions) >= 2
    /\ CompletedIds(task.actions) = Ids(task.actions)
    /\ CompletedIds(last.before.actions) # Ids(task.actions)
    /\ last.before.status = "in_progress"
    /\ task.status = "waiting_approval"

----------------------------------------------------------------------------
(* SpecConc: completeTaskAction and uncompleteTaskAction calls on one task *)
(* whose steps interleave.  A call reads the task (getDoc), decides and    *)
(* builds updatedActions from that snapshot, writes the actions array back *)
(* (updateDoc), and then, when its snapshot's status asks for it, writes   *)
(* the status (updateTask).  Other calls run between these steps.          *)

\* a task of at most MaxConcIds actions holding at most MaxConcEdges
\* dependsOn entries
MaxConcIds == 2
MaxConcEdges == 1

\* two calls in flight at a time; a call that has ended frees its slot for
\* the next call
Procs == {"call1", "call2"}

\* how a call ended; stale: it wrote the actions array from a snapshot
\* that the stored array had moved on from
CallEnd(op, actionId, error, stale) ==
    [op |-> op, actionId |-> actionId, error |-> error,
     threw |-> (error # "none"), stale |-> stale]

PendingCall(op, actionId, snap, updatedActions) ==
    [op |-> op, actionId |-> actionId, pc |-> "write", snap |-> snap,
     updatedActions |-> updatedActions]

\* a write-back that changes the target action in the stored array
writeBack_MergeTarget(stored, call) ==
    setCompleted(stored, call.actionId, call.op = "completeTaskAction")

\* updateDoc(taskRef, {actions: updatedActions}): the whole array replaced
writeBack(stored, call) == call.updatedActions

\* the status updateTask is then called with, "none" when it is not called
statusToWrite(call) ==
    IF call.op = "completeTaskAction"
    THEN IF statusAfterComplete(call.updatedActions, call.snap.status)
            # call.snap.status
         THEN "waiting_approval" ELSE "none"
    ELSE IF statusAfterUncomplete(call.snap.status) # call.snap.status
         THEN "in_progress" ELSE "none"

InitConc ==
    /\ \E c \in TaskCollectionsOver(MaxConcIds, MaxConcEdges) :
          task = TaskDoc(c, "pending")
    /\ template = NoDoc
    /\ last = NoCall
    /\ calls = [p \in Procs |-> NoCall]
    /\ PureIdle
    /\ EditorIdle

\* getDoc and everything up to the first updateDoc
BeginCall(p, op, actionId) ==
    LET error == IF op = "completeTaskAction"
                 THEN completeError(task, actionId)
                 ELSE uncompleteError(task, actionId)
        updatedActions == setCompleted(task.actions, actionId,
                                       op = "completeTaskAction")
    IN  /\ calls[p] = NoCall
        /\ IF error # "none"
           THEN /\ last' = CallEnd(op, actionId, error, FALSE)
                /\ UNCHANGED calls
           ELSE /\ calls' = [calls EXCEPT ![p] =
                               PendingCall(op, actionId, task, updatedActions)]
                /\ UNCHANGED last
        /\ UNCHANGED <<pureVars, task, template, editorVars>>

BeginComplete(p, actionId) == BeginCall(p, "completeTaskAction", actionId)

BeginUncomplete(p, actionId) == BeginCall(p, "uncompleteTaskAction", actionId)

\* await updateDoc(taskRef, {actions: updatedActions, updatedAt})
WriteActions(p) ==
    /\ calls[p] # NoCall
    /\ calls[p].pc = "write"
    /\ task' = [task EXCEPT !.actions = writeBack(task.actions, calls[p])]
    /\ calls' = [calls EXCEPT ![p] =
                    IF statusToWrite(calls[p]) = "none"
                    THEN NoCall
                    ELSE [calls[p] EXCEPT !.pc = "status"]]
    /\ last' = CallEnd(IF statusToWrite(calls[p]) = "none"
                       THEN calls[p].op ELSE "updateDoc",
                       calls[p].actionId, "none",
                       calls[p].snap.actions # task.actions)
    /\ UNCHANGED <<pureVars, template, editorVars>>

\* await this.updateTask(taskId, {status}), which ends the call
WriteStatus(p) ==
    /\ calls[p] # NoCall
    /\ calls[p].pc = "status"
    /\ task' = [task EXCEPT !.status = statusToWrite(calls[p])]
    /\ calls' = [calls EXCEPT ![p] = NoCall]
    /\ last' = CallEnd(calls[p].op, calls[p].actionId, "none", FALSE)
    /\ UNCHANGED <<pureVars, template, editorVars>>

\* updateTask(taskId, {status: 'in_progress'}) on a pending task: the work
\* on the task is started
StartTask ==
    /\ task.status = "pending"
    /\ task' = [task EXCEPT !.status = "in_progress"]
    /\ last' = [op |-> "updateTask", status |-> "in_progress"]
    /\ UNCHANGED <<pureVars, template, calls, editorVars>>

NextConc ==
    \/ \E p \in Procs : \E id \in 1..MaxConcIds : BeginComplete(p, id)
    \/ \E p \in Procs : \E id \in 1..MaxConcIds : BeginUncomplete(p, id)
    \/ \E p \in Procs : WriteActions(p)
    \/ \E p \in Procs : WriteStatus(p)
    \/ StartTask

SpecConc == InitConc /\ [][NextConc]_vars

\* C1: in every task state reached from no completed actions by
\* completeTaskAction and uncompleteTaskAction calls, interleaved or not,
\* every completed action has every action of its dependsOn completed.
C1_CompletedImpliesDependenciesCompleted ==
    \A k \in 1..Len(task.actions) :
        task.actions[k].completed =>
            Range(task.actions[k].dependsOn) \subseteq CompletedIds(task.actions)

\* an action with a dependency is completed in the stored task, and the
\* array was last written from a snapshot older than the array it replaced
C1_Witness ==
    /\ last.op \in {"completeTaskAction", "uncompleteTaskAction", "updateDoc"}
    /\ last.stale
    /\ \E k \in 1..Len(task.actions) :
          task.actions[k].completed /\ task.actions[k].dependsOn # <<>>

----------------------------------------------------------------------------
(* SpecEditor: the template editor (CreateActionTemplate).  elementsByStep *)
(* maps a step number to the actions of the step; action ids are fresh     *)
(* (Date.now() + random), modelled by the counter nextId.                   *)

\* at most MaxEditorIds actions are ever added, the editor has at most
\* MaxSteps steps, and its actions hold at most MaxEditorEdges dependsOn
\* entries in total
MaxEditorIds == 2
MaxSteps == 2
MaxEditorEdges == 2

\* elementsByStep[step] || []
stepElements(byStep, step) ==
    IF step \in DOMAIN byStep THEN byStep[step] ELSE <<>>

RECURSIVE flatFrom(_, _)
flatFrom(byStep, step) ==
    IF \A t \in DOMAIN byStep : t < step THEN <<>>
    ELSE stepElements(byStep, step) \o flatFrom(byStep, step + 1)

\* Object.values(elementsByStep).flat(): the steps in ascending key order
getAllActions(byStep) == flatFrom(byStep, 1)

\* the collection the cycle check is not meant to see: the current one
withDependencies_Unsubstituted(allActions, actionId, dependsOn) == allActions

\* the temporary map of handleUpdateDependencies: actionId's dependsOn
\* replaced by the proposed one
withDependencies(allActions, actionId, dependsOn) ==
    [k \in 1..Len(allActions) |->
        IF allActions[k].id = actionId
        THEN [allActions[k] EXCEPT !.dependsOn = dependsOn]
        ELSE allActions[k]]

\* the first step (ascending) that holds actionId, 0 when none does
stepOf(byStep, actionId) ==
    IF \E t \in DOMAIN byStep : actionId \in Ids(byStep[t])
    THEN CHOOSE t \in DOMAIN byStep :
            /\ actionId \in Ids(byStep[t])
            /\ \A u \in DOMAIN byStep : u < t => actionId \notin Ids(byStep[u])
    ELSE 0

\* elements.findIndex(el => el.id === actionId), 1-based
findIndex(elements, actionId) ==
    CHOOSE k \in 1..Len(elements) :
        /\ elements[k].id = actionId
        /\ \A j \in 1..(k - 1) : elements[j].id # actionId

\* the state update of handleUpdateDependencies
applyDependencies(byStep, actionId, dependsOn) ==
    LET t == stepOf(byStep, actionId)
    IN  IF t = 0 THEN byStep
        ELSE [byStep EXCEPT ![t] =
                [@ EXCEPT ![findIndex(@, actionId)].dependsOn = dependsOn]]

EdgeCount(actions) ==
    Cardinality(DependsEdges(actions))

EditorCall(op, rejected) == [op |-> op, rejected |-> rejected]

InitEditor ==
    /\ elementsByStep = [t \in 1..1 |-> <<>>]
    /\ numSteps = 1
    /\ currentStep = 1
    /\ editorError = FALSE
    /\ nextId = 1
    /\ last = NoCall
    /\ task = NoDoc /\ template = NoDoc /\ calls = <<>>
    /\ PureIdle

\* handleAddElement(type): a new action without dependsOn, appended to the
\* current step
HandleAddElement ==
    /\ nextId <= MaxEditorIds
    /\ elementsByStep' =
          [t \in DOMAIN elementsByStep \cup {currentStep} |->
              IF t = currentStep
              THEN Append(stepElements(elementsByStep, currentStep),
                          MkAction(nextId, <<>>))
              ELSE elementsByStep[t]]
    /\ nextId' = nextId + 1
    /\ last' = EditorCall("handleAddElement", FALSE)
    /\ UNCHANGED <<numSteps, currentStep, editorError>>
    /\ UNCHANGED <<pureVars, task, template, calls>>

\* what a handler did: the error it set ("none": it set none), what the
\* error message names, and the elementsByStep it left
Handled(error, detail, byStep) ==
    [error |-> error, detail |-> detail, elementsByStep |-> byStep]

\* a search for dependents that finds none
dependentsOf_None(allActions, id) == <<>>

\* allActions.filter(action => action.dependsOn?.includes(id))
dependentsOf(allActions, id) ==
    SelectSeq(allActions, LAMBDA action : includes(action.dependsOn, id))

\* handleRemoveElement(id) in the editor state <<byStep, step>>; the error
\* message gives the number of dependents
handleRemoveElement(byStep, step, id) ==
    LET dependents == dependentsOf(getAllActions(byStep), id)
    IN  IF Len(dependents) > 0
        THEN Handled("dependents", <<Len(dependents)>>, byStep)
        ELSE Handled("none", <<>>,
                     [t \in DOMAIN byStep \cup {step} |->
                         IF t = step
                         THEN SelectSeq(stepElements(byStep, step),
                                        LAMBDA element : element.id # id)
                         ELSE byStep[t]])

\* a handler whose error names the edited action and its proposed
\* dependencies
handleUpdateDependencies_NamesProposal(byStep, actionId, dependsOn) ==
    LET checked == Editor_checkForDependencyCycles(
                       withDependencies(getAllActions(byStep), actionId,
                                        dependsOn))
    IN  IF checked.thrown
        THEN Handled("cycle", <<actionId>> \o dependsOn, byStep)
        ELSE Handled("none", <<>>,
                     applyDependencies(byStep, actionId, dependsOn))

\* handleUpdateDependencies(actionId, dependsOn) in the editor state
\* byStep; the error message is the one checkForDependencyCycles threw,
\* which names two actions
handleUpdateDependencies(byStep, actionId, dependsOn) ==
    LET checked == Editor_checkForDependencyCycles(
                       withDependencies(getAllActions(byStep), actionId,
                                        dependsOn))
    IN  IF checked.thrown
        THEN Handled("cycle", checked.pair, byStep)
        ELSE Handled("none", <<>>,
                     applyDependencies(byStep, actionId, dependsOn))

\* handleRemoveElement(id), offered for the actions of the current step
HandleRemoveElement(id) ==
    LET handled == handleRemoveElement(elementsByStep, currentStep, id)
    IN  /\ id \in Ids(stepElements(elementsByStep, currentStep))
        /\ elementsByStep' = handled.elementsByStep
        /\ editorError' = (editorError \/ handled.error # "none")
        /\ last' = EditorCall("handleRemoveElement", handled.error # "none")
        /\ UNCHANGED <<numSteps, currentStep, nextId>>
        /\ UNCHANGED <<pureVars, task, template, calls>>

\* handleUpdateDependencies(actionId, dependsOn)
HandleUpdateDependencies(actionId, dependsOn) ==
    LET handled == handleUpdateDependencies(elementsByStep, actionId,
                                            dependsOn)
    IN  /\ elementsByStep' = handled.elementsByStep
        /\ editorError' = (editorError \/ handled.error # "none")
        /\ last' = EditorCall("handleUpdateDependencies",
                              handled.error # "none")
        /\ UNCHANGED <<numSteps, currentStep, nextId>>
        /\ UNCHANGED <<pureVars, task, template, calls>>

\* handleNumStepsChange followed by the numSteps effect
HandleNumStepsChange(value) ==
    /\ value # numSteps
    /\ numSteps' = value
    /\ elementsByStep' =
          [t \in 1..value |-> stepElements(elementsByStep, t)]
    /\ currentStep' = IF currentStep > value THEN value ELSE currentStep
    /\ last' = EditorCall("handleNumStepsChange", FALSE)
    /\ UNCHANGED <<editorError, nextId>>
    /\ UNCHANGED <<pureVars, task, template, calls>>

\* the previous / next step buttons
SetCurrentStep(step) ==
    /\ step \in {currentStep - 1, currentStep + 1}
    /\ step >= 1 /\ step <= numSteps
    /\ currentStep' = step
    /\ last' = EditorCall("setCurrentStep", FALSE)
    /\ UNCHANGED <<elementsByStep, numSteps, editorError, nextId>>
    /\ UNCHANGED <<pureVars, task, template, calls>>

\* the dependency lists a save can carry: ids of actions added so far
EditorDepSeqs == UNION {Perms(S) : S \in SubsetsUpTo(1..(nextId - 1),
                                                     MaxEditorEdges)}

NextEditor ==
    \/ HandleAddElement
    \/ \E id \in 1..MaxEditorIds : HandleRemoveElement(id)
    \/ \E id \in 1..(nextId - 1) : \E deps \in EditorDepSeqs :
          /\ EdgeCount(withDependencies(getAllActions(elementsByStep),
                                        id, deps)) <= MaxEditorEdges
          /\ HandleUpdateDependencies(id, deps)
    \/ \E n \in 1..MaxSteps : HandleNumStepsChange(n)
    \/ \E t \in 1..MaxSteps : SetCurrentStep(t)

SpecEditor == InitEditor /\ [][NextEditor]_vars

\* C3: starting from an acyclic collection in the template editor, after
\* any sequence of handleUpdateDependencies calls, accepted or rejected,
\* the dependsOn relation of the editor's collection is acyclic.
C3_EditorStaysAcyclic ==
    Acyclic(getAllActions(elementsByStep))

\* a dependency list was accepted and a later one, closing a cycle, was
\* rejected
C3_Witness ==
    /\ last = EditorCall("handleUpdateDependencies", TRUE)
    /\ \E k \in 1..Len(getAllActions(elementsByStep)) :
          getAllActions(elementsByStep)[k].dependsOn # <<>>

----------------------------------------------------------------------------
(* SpecHandler: one call of an editor handler in any editor state: the    *)
(* actions of a collection laid out over two steps, either step current.   *)
(* input is the editor state and the arguments of the call.                *)

\* the first k actions in step 1, the others in step 2
InSteps(c, k) ==
    [t \in {1, 2} |-> IF t = 1 THEN SubSeq(c, 1, k)
                      ELSE SubSeq(c, k + 1, Len(c))]

\* the dependency lists a call can propose for a collection
Proposals(c) ==
    UNION {Perms(S) : S \in SubsetsUpTo(Ids(c), MaxEditorEdges)}

HandlerInput(byStep, step, actionId, dependsOn) ==
    [elementsByStep |-> byStep, currentStep |-> step,
     actionId |-> actionId, dependsOn |-> dependsOn]

InitHandler ==
    /\ \E c \in TaskCollectionsOver(MaxEditorIds, MaxEditorEdges)
                  \cup {Scenario1} :
          \E k \in 0..Len(c) : \E step \in {1, 2} :
             \E id \in Ids(c) : \E deps \in Proposals(c) :
                input = HandlerInput(InSteps(c, k), step, id, deps)
    /\ outcome = NoOutcome
    /\ ServiceIdle
    /\ EditorIdle

HandlerOutcome(fn, handled) == [fn |-> fn, handled |-> handled]

RunHandleUpdateDependencies ==
    /\ outcome = NoOutcome
    /\ outcome' = HandlerOutcome("handleUpdateDependencies",
                     handleUpdateDependencies(input.elementsByStep,
                                              input.actionId, input.dependsOn))
    /\ UNCHANGED <<input, serviceVars, editorVars>>

\* the remove button is shown for the actions of the current step
RunHandleRemoveElement ==
    /\ outcome = NoOutcome
    /\ input.actionId \in
          Ids(stepElements(input.elementsByStep, input.currentStep))
    /\ outcome' = HandlerOutcome("handleRemoveElement",
                     handleRemoveElement(input.elementsByStep,
                                         input.currentStep, input.actionId))
    /\ UNCHANGED <<input, serviceVars, editorVars>>

NextHandler ==
    \/ RunHandleUpdateDependencies
    \/ RunHandleRemoveElement

SpecHandler == InitHandler /\ [][NextHandler]_vars

\* C15: a handleUpdateDependencies call whose dependency set would create
\* a cycle reports an error and leaves every action's dependsOn, the
\* target's included, as it was: the editor state after the call is the
\* state before it, the cyclic edge set is in no step.
C15_CyclicUpdateChangesNothing ==
    (outcome.fn = "handleUpdateDependencies"
     /\ HasCycle(withDependencies(getAllActions(input.elementsByStep),
                                  input.actionId, input.dependsOn)))
        => /\ outcome.handled.error = "cycle"
           /\ outcome.handled.elementsByStep = input.elementsByStep

\* an acyclic editor state with a dependency in it, a proposal for an
\* action of the second step that would close a cycle, rejected
C15_Witness ==
    /\ outcome.fn = "handleUpdateDependencies"
    /\ Acyclic(getAllActions(input.elementsByStep))
    /\ EdgeCount(getAllActions(input.elementsByStep)) > 0
    /\ input.actionId \in Ids(input.elementsByStep[2])
    /\ input.actionId \notin Range(input.dependsOn)
    /\ HasCycle(withDependencies(getAllActions(input.elementsByStep),
                                 input.actionId, input.dependsOn))
    /\ outcome.handled.error = "cycle"
    /\ outcome.handled.elementsByStep = input.elementsByStep

\* C18: removing an action that an action of any step lists in its
\* dependsOn is refused with an error and leaves every step's action list
\* unchanged; an action that no action depends on is removed (from its
\* step, the other steps and the order of the other actions unchanged).
C18_RemoveRefusedWhileDependedOn ==
    outcome.fn = "handleRemoveElement" =>
        LET before == input.elementsByStep
            after == outcome.handled.elementsByStep
            id == input.actionId
            all == getAllActions(before)
        IN  IF \E k \in 1..Len(all) : id \in Range(all[k].dependsOn)
            THEN /\ outcome.handled.error # "none"
                 /\ after = before
            ELSE /\ outcome.handled.error = "none"
                 /\ DOMAIN after = DOMAIN before
                 /\ \A t \in DOMAIN before :
                       after[t] = SelectSeq(before[t], LAMBDA el : el.id # id)
                 /\ id \notin Ids(getAllActions(after))

\* scenario 1 with A alone in the current step and B, C, D in the other:
\* removing A is refused, two actions depend on it
C18_Witness ==
    /\ outcome.fn = "handleRemoveElement"
    /\ getAllActions(input.elementsByStep) = Scenario1
    /\ Len(input.elementsByStep[1]) = 1
    /\ input.currentStep = 1
    /\ input.actionId = 1
    /\ outcome.handled.error = "dependents"
    /\ outcome.handled.detail = <<2>>
    /\ outcome.handled.elementsByStep = input.elementsByStep

\* an action nothing depends on is removed: D of scenario 1
C18_WitnessRemoved ==
    /\ outcome.fn = "handleRemoveElement"
    /\ getAllActions(input.elementsByStep) = Scenario1
    /\ input.actionId = 4
    /\ outcome.handled.error = "none"
    /\ Ids(getAllActions(outcome.handled.elementsByStep)) = {1, 2, 3}

\* the call of scenario 2: A's dependencies set to [D] on A, B(A), C(A),
\* D(B, C)
Scenario2Call ==
    /\ outcome.fn = "handleUpdateDependencies"
    /\ getAllActions(input.elementsByStep) = Scenario1
    /\ input.actionId = 1
    /\ input.dependsOn = <<4>>

\* C19 as stated: setting A's dependencies to [D] on scenario 1 is rejected
\* with a cycle error that names the actions A and D.
C19_CycleErrorNamesAAndD ==
    Scenario2Call =>
        /\ outcome.handled.error = "cycle"
        /\ Range(outcome.handled.detail) = {1, 4}

\* C19 amended: setting A's dependencies to [D] on scenario 1 is rejected,
\* nothing is changed, and the cycle error names the actions B and A: the
\* edge (B depends on A) at which the traversal A -> D -> B finds A on its
\* stack.
C19_CycleErrorNamesBackEdge ==
    Scenario2Call =>
        /\ outcome.handled.error = "cycle"
        /\ outcome.handled.detail = <<2, 1>>
        /\ outcome.handled.elementsByStep = input.elementsByStep

\* the call of scenario 2 was made and rejected
C19_Witness ==
    /\ Scenario2Call
    /\ outcome.handled.error = "cycle"
    /\ outcome.handled.elementsByStep = input.elementsByStep

----------------------------------------------------------------------------
(* SpecAwait: completeTaskAction and uncompleteTaskAction called one at a  *)
(* time, with the calls they await after the actions array is written:    *)
(* updateDoc, then this.updateTask (when the status is to change), then    *)
(* projectService.getProjectById (when dependents are announced).  Each of *)
(* these is a request that can be rejected; the catch block rethrows.      *)

\* the requests a call awaits once its checks have passed, in order
awaitedRequests(op, snap, updatedActions, actionId) ==
    <<"updateDoc">>
    \o (IF op = "completeTaskAction"
        THEN (IF statusAfterComplete(updatedActions, snap.status) # snap.status
              THEN <<"updateTask">> ELSE <<>>)
             \o (IF Len(dependentActions(updatedActions, actionId)) > 0
                 THEN <<"getProjectById">> ELSE <<>>)
        ELSE (IF statusAfterUncomplete(snap.status) # snap.status
              THEN <<"updateTask">> ELSE <<>>))

\* the requests a call can await
Requests == {"updateDoc", "updateTask", "getProjectById"}

\* the requests that were fulfilled when the request `rejected` is rejected
\* ("none": every request is fulfilled)
fulfilled(requests, rejected) ==
    IF rejected = "none" THEN Range(requests)
    ELSE {requests[j] : j \in {i \in 1..Len(requests) :
                                  \A h \in 1..i : requests[h] # rejected}}

\* the document after the fulfilled requests: updateDoc writes the actions
\* array, updateTask the status
documentAfter(snap, updatedActions, status, done) ==
    [snap EXCEPT
        !.actions = IF "updateDoc" \in done THEN updatedActions ELSE @,
        !.status = IF "updateTask" \in done THEN status ELSE @]

InitAwait ==
    /\ \E c \in TaskCollectionsOver(MaxConcIds, MaxConcEdges) :
          \E st \in {"pending", "in_progress"} : task = TaskDoc(c, st)
    /\ template = NoDoc
    /\ last = NoCall
    /\ calls = <<>>
    /\ PureIdle
    /\ EditorIdle

\* one call of op on actionId in which the awaited request `rejected` fails
\* ("none": no request fails)
AwaitingCall(op, actionId, rejected) ==
    LET error == IF op = "completeTaskAction"
                 THEN completeError(task, actionId)
                 ELSE uncompleteError(task, actionId)
        updatedActions == setCompleted(task.actions, actionId,
                                       op = "completeTaskAction")
        status == IF op = "completeTaskAction"
                  THEN statusAfterComplete(updatedActions, task.status)
                  ELSE statusAfterUncomplete(task.status)
        requests == awaitedRequests(op, task, updatedActions, actionId)
    IN  /\ IF error # "none"
           THEN /\ rejected = "none"
                /\ last' = ServiceCall(op, actionId, error, task, <<>>)
                /\ UNCHANGED task
           ELSE /\ rejected \in {"none"} \cup Range(requests)
                /\ task' = documentAfter(task, updatedActions, status,
                                         fulfilled(requests, rejected))
                /\ last' = ServiceCall(op, actionId,
                              IF rejected = "none" THEN "none"
                              ELSE rejected \o " rejected",
                              task, <<>>)
        /\ UNCHANGED <<pureVars, template, calls, editorVars>>

CompleteTaskActionAwaiting(actionId, rejected) ==
    AwaitingCall("completeTaskAction", actionId, rejected)

UncompleteTaskActionAwaiting(actionId, rejected) ==
    AwaitingCall("uncompleteTaskAction", actionId, rejected)

NextAwait ==
    \/ \E id \in 1..MaxConcIds : \E r \in {"none"} \cup Requests :
          CompleteTaskActionAwaiting(id, r)
    \/ \E id \in 1..MaxConcIds : \E r \in {"none"} \cup Requests :
          UncompleteTaskActionAwaiting(id, r)

SpecAwait == InitAwait /\ [][NextAwait]_vars

\* C11: when a completeTaskAction or uncompleteTaskAction call ends with an
\* error, the stored actions array is what it was before the call.
C11_FailedCallLeavesActions ==
    (last.op \in {"completeTaskAction", "uncompleteTaskAction"} /\ last.threw)
        => task.actions = last.before.actions

----------------------------------------------------------------------------
(* The level organizer: WorkflowVisualizer.actionLevels and the copy of it *)
(* in CreateActionTemplate (organizeActions).  The result is a sequence of *)
(* levels, each a sequence of actions in array order.                      *)

\* levels.flat().forEach(action => processedActionIds.add(action.id))
processedActionIds(levels) ==
    UNION {Ids(levels[k]) : k \in 1..Len(levels)}

\* a next level that takes an action as soon as one dependency is processed
nextLevel_SomeDependency(actions, processed) ==
    SelectSeq(actions,
              LAMBDA action :
                  /\ action.id \notin processed
                  /\ \/ Len(action.dependsOn) = 0
                     \/ \E depId \in Range(action.dependsOn) :
                           depId \in processed)

\* actions.filter(action => !processed.has(action.id) &&
\*                          action.dependsOn.every(d => processed.has(d)))
nextLevel(actions, processed) ==
    SelectSeq(actions,
              LAMBDA action :
                  /\ action.id \notin processed
                  /\ \A depId \in Range(action.dependsOn) :
                        depId \in processed)

\* actions.filter(action => !action.dependsOn || action.dependsOn.length === 0)
initialActions(actions) ==
    SelectSeq(actions, LAMBDA action : Len(action.dependsOn) = 0)

RECURSIVE levelsLoop(_, _, _)
\* while (currentLevel.length > 0) { levels.push(currentLevel); ... }
levelsLoop(actions, levels, currentLevel) ==
    IF Len(currentLevel) = 0 THEN levels
    ELSE LET pushed == Append(levels, currentLevel)
         IN  levelsLoop(actions, pushed,
                        nextLevel(actions, processedActionIds(pushed)))

\* WorkflowVisualizer.tsx: const actionLevels = useMemo(...)
actionLevels(actions) ==
    levelsLoop(actions, <<>>, initialActions(actions))

\* CreateActionTemplate.tsx: const organizeActions = () => {...}
organizeActions(actions) ==
    levelsLoop(actions, <<>>, initialActions(actions))

\* what a level organizer call ended with: neither routine has a throw
LevelsOutcome(fn, levels) ==
    [fn |-> fn, thrown |-> FALSE, levels |-> levels]

----------------------------------------------------------------------------
(* SpecLevels: the level organizers as pure functions of a collection *)

InitLevels ==
    /\ (IsCollection(input, MaxEdges) \/ input = Scenario1)
    /\ outcome = NoOutcome
    /\ ServiceIdle
    /\ EditorIdle

RunActionLevels ==
    /\ outcome = NoOutcome
    /\ outcome' = LevelsOutcome("actionLevels", actionLevels(input))
    /\ UNCHANGED <<input, serviceVars, editorVars>>

RunOrganizeActions ==
    /\ outcome = NoOutcome
    /\ outcome' = LevelsOutcome("organizeActions", organizeActions(input))
    /\ UNCHANGED <<input, serviceVars, editorVars>>

NextLevels ==
    \/ RunActionLevels
    \/ RunOrganizeActions

SpecLevels == InitLevels /\ [][NextLevels]_vars

\* the level index the dependsOn relation gives an action of an acyclic,
\* intact collection: 0 without dependencies, else 1 + the largest index
\* among its dependencies
RECURSIVE Depth(_, _)
Depth(actions, id) ==
    LET deps == Range(ActionOf(actions, id).dependsOn)
    IN  IF deps = {} THEN 0
        ELSE LET depths == {Depth(actions, d) : d \in deps}
             IN  1 + CHOOSE m \in depths : \A n \in depths : n <= m

\* the places <<level, position>> of the result that hold the action id
PlacesOf(levels, id) ==
    {p \in UNION {{<<k, j>> : j \in 1..Len(levels[k])} : k \in 1..Len(levels)} :
        levels[p[1]][p[2]].id = id}

LevelIds(levels) ==
    [k \in 1..Len(levels) |-> [j \in 1..Len(levels[k]) |-> levels[k][j].id]]

\* C12: for an acyclic, referentially intact collection the level organizer
\* places every action in exactly one level, at index 0 when its dependsOn
\* is empty and otherwise at 1 + the largest index among its dependencies;
\* [A, B(A), C(A), D(B,C)] yields [[A],[B,C],[D]].
C12_LevelIsDependencyDepth ==
    (outcome.fn \in {"actionLevels", "organizeActions"}
     /\ Acyclic(input) /\ Intact(input))
        => /\ \A id \in Ids(input) :
                /\ Cardinality(PlacesOf(outcome.levels, id)) = 1
                /\ \A p \in PlacesOf(outcome.levels, id) :
                      p[1] - 1 = Depth(input, id)
           /\ \A k \in 1..Len(outcome.levels) :
                 Ids(outcome.levels[k]) \subseteq Ids(input)
           /\ input = Scenario1 =>
                 LevelIds(outcome.levels) = << <<1>>, <<2, 3>>, <<4>> >>

\* scenario 1 organized into its three levels
C12_Witness ==
    /\ outcome.fn = "actionLevels"
    /\ input = Scenario1
    /\ LevelIds(outcome.levels) = << <<1>>, <<2, 3>>, <<4>> >>

\* C13: on a collection with a dependency cycle or a dependsOn id of no
\* action the level organizer fails with an error; it does not return
\* levels from which actions are missing.
C13_InvalidGraphFails ==
    (outcome.fn \in {"actionLevels", "organizeActions"}
     /\ (HasCycle(input) \/ ~Intact(input)))
        => outcome.thrown

----------------------------------------------------------------------------
(* ActionView's WorkflowProgress.organizeWorkflow: the next level is the   *)
(* dependents of the current level, found through dependencyMap.           *)

\* dependencyMap.get(id) || []: the ids of the actions that list id in
\* their dependsOn, in array order
dependencyMapGet(allActions, id) ==
    LET dependents == SelectSeq(allActions,
                                LAMBDA a : includes(a.dependsOn, id))
    IN  [k \in 1..Len(dependents) |-> dependents[k].id]

RECURSIVE pushDependents(_, _, _, _)
\* dependents.forEach(depId => { find; if (found && !nextLevel.includes) push })
pushDependents(allActions, dependents, k, level) ==
    IF k > Len(dependents) THEN level
    ELSE LET dependentAction == find(allActions, dependents[k])
         IN  pushDependents(allActions, dependents, k + 1,
                IF dependentAction # NoAction /\ ~includes(level, dependentAction)
                THEN Append(level, dependentAction)
                ELSE level)

RECURSIVE dependentsLevel(_, _, _, _)
\* currentLevel.forEach(action => { ... }) from position k on
dependentsLevel(allActions, currentLevel, k, level) ==
    IF k > Len(currentLevel) THEN level
    ELSE dependentsLevel(allActions, currentLevel, k + 1,
            pushDependents(allActions,
                           dependencyMapGet(allActions, currentLevel[k].id),
                           1, level))

\* the nextLevel of one iteration of organizeWorkflow's while loop
nextWorkflowLevel(allActions, currentLevel) ==
    dependentsLevel(allActions, currentLevel, 1, <<>>)

----------------------------------------------------------------------------
(* SpecLoop: the while loops of the level-organising routines, a step for  *)
(* each test of the loop condition and each run of the body.  The loop     *)
(* state is what the loop condition and the loop body read: currentLevel,  *)
(* and for actionLevels the ids in levels (organizeWorkflow pushes to      *)
(* levels and never reads it).  The scheduler runs a started routine until *)
(* it returns: weak fairness of every step.                                *)

LoopState(fn, pc, currentLevel, processed) ==
    [fn |-> fn, pc |-> pc, currentLevel |-> currentLevel,
     processed |-> processed]

InitLoop ==
    /\ IsCollection(input, MaxEdges)
    /\ outcome = NoOutcome
    /\ ServiceIdle
    /\ EditorIdle

\* actionLevels up to the first test of the loop condition
StartActionLevels ==
    /\ outcome = NoOutcome
    /\ outcome' = LoopState("actionLevels", "test", initialActions(input), {})
    /\ UNCHANGED <<input, serviceVars, editorVars>>

\* while (currentLevel.length > 0): the test of the loop condition
TestActionLevels ==
    /\ outcome.fn = "actionLevels"
    /\ outcome.pc = "test"
    /\ outcome' = [outcome EXCEPT !.pc = IF Len(outcome.currentLevel) > 0
                                         THEN "body" ELSE "done"]
    /\ UNCHANGED <<input, serviceVars, editorVars>>

\* the loop body: levels.push(currentLevel), currentLevel = nextLevel
IterateActionLevels ==
    /\ outcome.fn = "actionLevels"
    /\ outcome.pc = "body"
    /\ LET processed == outcome.processed \cup Ids(outcome.currentLevel)
       IN  outcome' = [outcome EXCEPT
                          !.pc = "test",
                          !.processed = processed,
                          !.currentLevel = nextLevel(input, processed)]
    /\ UNCHANGED <<input, serviceVars, editorVars>>

\* WorkflowProgress renders nothing for at most one action; otherwise
\* organizeWorkflow runs up to the first test of its loop condition
StartOrganizeWorkflow ==
    /\ outcome = NoOutcome
    /\ outcome' = IF Len(input) <= 1
                  THEN LoopState("organizeWorkflow", "done", <<>>, {})
                  ELSE LoopState("organizeWorkflow", "test",
                                 initialActions(input), {})
    /\ UNCHANGED <<input, serviceVars, editorVars>>

\* while (currentLevel.length > 0): the test of the loop condition
TestOrganizeWorkflow ==
    /\ outcome.fn = "organizeWorkflow"
    /\ outcome.pc = "test"
    /\ outcome' = [outcome EXCEPT !.pc = IF Len(outcome.currentLevel) > 0
                                         THEN "body" ELSE "done"]
    /\ UNCHANGED <<input, serviceVars, editorVars>>

\* the loop body: levels.push(currentLevel), currentLevel = nextLevel
IterateOrganizeWorkflow ==
    /\ outcome.fn = "organizeWorkflow"
    /\ outcome.pc = "body"
    /\ outcome' = [outcome EXCEPT
                      !.pc = "test",
                      !.currentLevel =
                          nextWorkflowLevel(input, outcome.currentLevel)]
    /\ UNCHANGED <<input, serviceVars, editorVars>>

NextLoop ==
    \/ StartActionLevels
    \/ TestActionLevels
    \/ IterateActionLevels
    \/ StartOrganizeWorkflow
    \/ TestOrganizeWorkflow
    \/ IterateOrganizeWorkflow

SpecLoop == InitLoop /\ [][NextLoop]_vars /\ WF_vars(NextLoop)

\* C14: every level-organising routine, started on any finite collection
\* (one with a dependsOn cycle included), returns.
C14_LevelRoutinesTerminate ==
    <>(outcome.fn # "none" /\ outcome.pc = "done")

----------------------------------------------------------------------------
(* DependencyEditor.handleSave (components/workflow/DependencyEditor.tsx): *)
(* the cycle check it runs before it hands the selection to                *)
(* onUpdateDependencies.  A traversal state is [visited, recursionStack,   *)
(* ret].                                                                    *)

SaveStart == [visited |-> {}, recursionStack |-> {}, ret |-> FALSE]

\* the dependencies read from the stored collection only: the selection
\* is not substituted
tempDepsGet_StoredOnly(actions, currentActionId, selectedDeps, actionId) ==
    IF actionMapGet(actions, actionId) = NoAction THEN <<>>
    ELSE actionMapGet(actions, actionId).dependsOn

\* tempDeps.get(actionId) || []: the selection for the edited action, the
\* stored dependsOn for the others
tempDepsGet(actions, currentActionId, selectedDeps, actionId) ==
    IF actionMapGet(actions, actionId) = NoAction THEN <<>>
    ELSE IF actionId = currentActionId THEN selectedDeps
    ELSE actionMapGet(actions, actionId).dependsOn

RECURSIVE saveCheckCycle(_, _, _, _, _), saveCheckLoop(_, _, _, _, _, _)

\* const checkCycle = (actionId) => { ... } of handleSave
saveCheckCycle(actions, currentActionId, selectedDeps, actionId, st) ==
    IF actionId \in st.recursionStack THEN [st EXCEPT !.ret = TRUE]
    ELSE IF actionId \in st.visited THEN [st EXCEPT !.ret = FALSE]
    ELSE LET entered == [st EXCEPT !.visited = @ \cup {actionId},
                                   !.recursionStack = @ \cup {actionId}]
             after == saveCheckLoop(actions, currentActionId, selectedDeps,
                         tempDepsGet(actions, currentActionId, selectedDeps,
                                     actionId),
                         1, entered)
         IN  IF after.ret THEN after
             ELSE [after EXCEPT !.recursionStack = @ \ {actionId},
                                !.ret = FALSE]

\* for (const depId of dependencies) if (checkCycle(depId)) return true
saveCheckLoop(actions, currentActionId, selectedDeps, deps, k, st) ==
    IF k > Len(deps) THEN [st EXCEPT !.ret = FALSE]
    ELSE LET called == saveCheckCycle(actions, currentActionId, selectedDeps,
                                      deps[k], st)
         IN  IF called.ret THEN called
             ELSE saveCheckLoop(actions, currentActionId, selectedDeps, deps,
                                k + 1, called)

\* handleSave: TRUE when onUpdateDependencies(currentActionId, selectedDeps)
\* is called, FALSE when the save is refused with the error set
handleSave(actions, currentActionId, selectedDeps) ==
    ~saveCheckCycle(actions, currentActionId, selectedDeps, currentActionId,
                    SaveStart).ret

----------------------------------------------------------------------------
(* SpecSave: one press of the save button of a DependencyEditor opened on  *)
(* an action of a collection, with any selection made.                      *)

SaveInput(actions, currentActionId, selectedDeps) ==
    [actions |-> actions, currentActionId |-> currentActionId,
     selectedDeps |-> selectedDeps]

InitSave ==
    /\ \E c \in TaskCollectionsOver(MaxId, MaxEditorEdges) :
          \E id \in Ids(c) : \E deps \in Proposals(c) :
             input = SaveInput(c, id, deps)
    /\ outcome = NoOutcome
    /\ ServiceIdle
    /\ EditorIdle

\* the save as DependencyEditor decides it
RunHandleSave ==
    /\ outcome = NoOutcome
    /\ outcome' = [fn |-> "DependencyEditor.handleSave",
                   saved |-> handleSave(input.actions, input.currentActionId,
                                        input.selectedDeps)]
    /\ UNCHANGED <<input, serviceVars, editorVars>>

\* the same selection given to the whole-collection check of the template
\* editor
RunWholeCollectionCheck ==
    /\ outcome = NoOutcome
    /\ outcome' = [fn |-> "CreateActionTemplate.handleUpdateDependencies",
                   saved |-> handleUpdateDependencies(
                                 InSteps(input.actions, Len(input.actions)),
                                 input.currentActionId,
                                 input.selectedDeps).error = "none"]
    /\ UNCHANGED <<input, serviceVars, editorVars>>

NextSave ==
    \/ RunHandleSave
    \/ RunWholeCollectionCheck

SpecSave == InitSave /\ [][NextSave]_vars

\* C20: DependencyEditor.handleSave does not call onUpdateDependencies
\* whenever the collection with the selected dependencies substituted for
\* the edited action contains a cycle, one among actions that the edited
\* action does not reach included.
C20_SaveRefusedOnAnyCycle ==
    (outcome.fn = "DependencyEditor.handleSave"
     /\ HasCycle(withDependencies(input.actions, input.currentActionId,
                                  input.selectedDeps)))
        => ~outcome.saved

----------------------------------------------------------------------------
(* The fields completeTaskAction and uncompleteTaskAction write on one      *)
(* action.  completedAt = NoTime and completedBy = NoUser stand for null    *)
(* and for an absent field; `data` lists its present fields in `has`.       *)

NoTime == 0
NoUser == "none"

\* Date.now() and auth.currentUser.uid as read by one call
Stamps == {[at |-> 1, by |-> "user1"], [at |-> 2, by |-> "user2"]}

\* TaskAction.data without any field
EmptyData == [has |-> {}, fileURLs |-> <<>>, steps |-> <<>>]

\* the `data` argument of completeTaskAction: not given, {} and
\* {attachments: [...]}
NoArgument == [given |-> FALSE, has |-> {}, attachments |-> <<>>]

DataArguments ==
    { NoArgument,
      [given |-> TRUE, has |-> {}, attachments |-> <<>>],
      [given |-> TRUE, has |-> {"attachments"},
       attachments |-> <<"upload1", "upload2">>] }

\* type, hasAttachments and attachments as a template gives them
Kinds ==
    { [type |-> "info", hasAttachments |-> TRUE,
       attachments |-> <<"brief">>],
      [type |-> "info", hasAttachments |-> FALSE, attachments |-> <<>>],
      [type |-> "document", hasAttachments |-> FALSE, attachments |-> <<>>] }

\* a TaskAction with the fields the two operations read and write
Detailed(action, kind) ==
    [id |-> action.id, dependsOn |-> action.dependsOn,
     nextActions |-> action.nextActions, completed |-> action.completed,
     type |-> kind.type, hasAttachments |-> kind.hasAttachments,
     attachments |-> kind.attachments,
     completedAt |-> NoTime, completedBy |-> NoUser, data |-> EmptyData]

\* the completion that stamps every action of the array
completeActions_AllStamped(actions, actionId, data, stamp) ==
    [k \in 1..Len(actions) |->
        [actions[k] EXCEPT !.completed = TRUE, !.completedAt = stamp.at,
                           !.completedBy = stamp.by]]

\* the object completeTaskAction builds for the action it completes
completeAction(action, data, stamp) ==
    LET updatedAction ==
            [action EXCEPT !.completed = TRUE, !.completedAt = stamp.at,
                           !.completedBy = stamp.by]
    IN  IF /\ action.type = "info" /\ action.hasAttachments
           /\ data.given /\ "attachments" \in data.has
        THEN [updatedAction EXCEPT
                !.data = [@ EXCEPT !.has = @ \cup {"fileURLs"},
                                   !.fileURLs = data.attachments]]
        ELSE IF action.type = "document" /\ data.given
        THEN [updatedAction EXCEPT
                !.data = [@ EXCEPT !.has = @ \cup {"steps", "fileURLs"}]]
        ELSE updatedAction

\* taskData.actions.map(action => action.id === actionId ? {...} : action)
completeActions(actions, actionId, data, stamp) ==
    [k \in 1..Len(actions) |->
        IF actions[k].id = actionId
        THEN completeAction(actions[k], data, stamp)
        ELSE actions[k]]

\* the object uncompleteTaskAction builds for the action it reverts
uncompleteAction(action) ==
    [action EXCEPT
        !.completed = FALSE, !.completedAt = NoTime, !.completedBy = NoUser,
        !.attachments = IF action.type = "info" /\ action.hasAttachments
                        THEN <<>> ELSE @]

uncompleteActions(actions, actionId) ==
    [k \in 1..Len(actions) |->
        IF actions[k].id = actionId
        THEN uncompleteAction(actions[k])
        ELSE actions[k]]

----------------------------------------------------------------------------
(* SpecRecord: one caller completes, reverts and reads one action of a     *)
(* task.  `input` holds the arguments of the caller (action id, data) and  *)
(* the clock and user its calls read; the task starts in progress with any *)
(* set of actions completed that sequential calls can have completed.      *)

\* the completed sets sequential completions reach
Completable(c, done) ==
    LET sub == SelectSeq(c, LAMBDA a : a.id \in done)
    IN  /\ done \subseteq Ids(c)
        /\ Acyclic(sub)
        /\ \A k \in 1..Len(sub) : Range(sub[k].dependsOn) \subseteq done

RecordInput(actionId, data, stamp) ==
    [actionId |-> actionId, data |-> data, stamp |-> stamp]

InitRecord ==
    /\ \E c \in TaskCollectionsOver(MaxConcIds, MaxConcEdges) \cup {Scenario1} :
       \E kind \in Kinds : \E done \in SUBSET Ids(c) : \E first \in Stamps :
          /\ Completable(c, done)
          /\ task = TaskDoc(
               [k \in 1..Len(c) |->
                   IF c[k].id \in done
                   THEN completeAction(Detailed(c[k], kind), NoArgument, first)
                   ELSE Detailed(c[k], kind)],
               "in_progress")
          /\ \E actionId \in IdUniverse \cup Ids(c) :
             \E data \in DataArguments : \E stamp \in Stamps :
                input = RecordInput(actionId, data, stamp)
    /\ outcome = NoOutcome
    /\ template = NoDoc
    /\ last = NoCall
    /\ calls = <<>>
    /\ EditorIdle

\* completeTaskAction(taskId, input.actionId, input.data)
CompleteTaskActionWithData ==
    LET error == completeError(task, input.actionId)
        updatedActions == completeActions(task.actions, input.actionId,
                                          input.data, input.stamp)
    IN  /\ IF error # "none"
           THEN /\ last' = ServiceCall("completeTaskAction", input.actionId,
                                       error, task, <<>>)
                /\ UNCHANGED task
           ELSE /\ task' = [task EXCEPT
                              !.actions = updatedActions,
                              !.status = statusAfterComplete(updatedActions,
                                                             task.status)]
                /\ last' = ServiceCall("completeTaskAction", input.actionId,
                              error, task,
                              dependentActions(updatedActions, input.actionId))
        /\ outcome' = NoOutcome
        /\ UNCHANGED <<input, template, calls, editorVars>>

\* uncompleteTaskAction(taskId, input.actionId)
UncompleteTaskActionRecord ==
    LET error == uncompleteError(task, input.actionId)
    IN  /\ IF error # "none"
           THEN /\ last' = ServiceCall("uncompleteTaskAction", input.actionId,
                                       error, task, <<>>)
                /\ UNCHANGED task
           ELSE /\ task' = [task EXCEPT
                              !.actions = uncompleteActions(task.actions,
                                                            input.actionId),
                              !.status = statusAfterUncomplete(task.status)]
                /\ last' = ServiceCall("uncompleteTaskAction", input.actionId,
                                       error, task, <<>>)
        /\ outcome' = NoOutcome
        /\ UNCHANGED <<input, template, calls, editorVars>>

\* getAvailableActions(taskId) right after a call
ReadAvailableActions ==
    /\ last # NoCall
    /\ outcome = NoOutcome
    /\ outcome' = [fn |-> "getAvailableActions",
                   actions |-> getAvailableActions(task.actions)]
    /\ UNCHANGED <<input, serviceVars, editorVars>>

NextRecord ==
    \/ CompleteTaskActionWithData
    \/ UncompleteTaskActionRecord
    \/ ReadAvailableActions

SpecRecord == InitRecord /\ [][NextRecord]_vars

\* the dependencies of an action that were not completed in `actions`
IncompleteDependencies(actions, action) ==
    Range(action.dependsOn) \ CompletedIds(actions)

\* C21: after a successful completeTaskAction on X, getAvailableActions
\* returns every not-completed action whose only incomplete dependency
\* before the call was X, and returns no not-completed action that had
\* another incomplete dependency (scenario 1: after A, B and C are
\* returned and D is not).
C21_CompletionUnlocksExactlyItsDependents ==
    (/\ outcome.fn = "getAvailableActions"
     /\ last.op = "completeTaskAction"
     /\ ~last.threw)
        => \A k \in 1..Len(task.actions) :
              LET action == task.actions[k]
                  open == IncompleteDependencies(last.before.actions, action)
              IN  ~action.completed =>
                    /\ open = {last.actionId}
                          => action.id \in Ids(outcome.actions)
                    /\ open \ {last.actionId} # {}
                          => action.id \notin Ids(outcome.actions)

\* scenario 1: A completed, the read returns B and C and not D
C21_Witness ==
    /\ outcome.fn = "getAvailableActions"
    /\ last.op = "completeTaskAction"
    /\ ~last.threw
    /\ last.actionId = 1
    /\ Ids(task.actions) = {1, 2, 3, 4}
    /\ CompletedIds(last.before.actions) = {}
    /\ IncompleteDependencies(last.before.actions, task.actions[2]) = {1}
    /\ IncompleteDependencies(last.before.actions, task.actions[4]) = {2, 3}
    /\ Ids(outcome.actions) = {2, 3}

\* C22: a successful completeTaskAction sets completed on the target
\* action, stamps its completedAt and completedBy with the clock and the
\* user of the call, and leaves completed, completedAt, completedBy and
\* dependsOn of every other action as they were.
C22_CompletionTouchesOnlyItsTarget ==
    (last.op = "completeTaskAction" /\ ~last.threw)
        => /\ Len(task.actions) = Len(last.before.actions)
           /\ \A k \in 1..Len(task.actions) :
                LET after == task.actions[k]
                    before == last.before.actions[k]
                IN  IF before.id = last.actionId
                    THEN /\ after.completed
                         /\ after.completedAt = input.stamp.at
                         /\ after.completedBy = input.stamp.by
                    ELSE /\ after.id = before.id
                         /\ after.completed = before.completed
                         /\ after.completedAt = before.completedAt
                         /\ after.completedBy = before.completedBy
                         /\ after.dependsOn = before.dependsOn

\* B of scenario 1 completed by user2 at time 2 while A keeps the stamp
\* user1 gave it at time 1 and C and D stay not completed
C22_Witness ==
    /\ last.op = "completeTaskAction"
    /\ ~last.threw
    /\ last.actionId = 2
    /\ Ids(task.actions) = {1, 2, 3, 4}
    /\ ~last.before.actions[2].completed
    /\ task.actions[2].completed
    /\ task.actions[2].completedAt = 2
    /\ task.actions[2].completedBy = "user2"
    /\ task.actions[1].completed
    /\ task.actions[1].completedAt = 1
    /\ task.actions[1].completedBy = "user1"
    /\ ~task.actions[3].completed
    /\ task.actions[3].completedAt = NoTime
    /\ task.actions[4].dependsOn = <<2, 3>>

\* the urls an action carries: its attachments and its data.fileURLs
UrlsOn(action) == Range(action.attachments) \cup Range(action.data.fileURLs)

\* C23: completing an 'info' action that takes attachments with data
\* carrying attachment urls, then successfully uncompleting it, leaves the
\* action not completed, without completedAt, without completedBy and
\* without any of the urls the completion stored.
C23_UncompleteClearsStoredUrls ==
    (/\ last.op = "uncompleteTaskAction"
     /\ ~last.threw
     /\ "attachments" \in input.data.has
     /\ \E k \in 1..Len(last.before.actions) :
           LET stored == last.before.actions[k]
           IN  /\ stored.id = last.actionId
               /\ stored.type = "info" /\ stored.hasAttachments
               /\ stored.completed
               /\ stored.data.fileURLs = input.data.attachments)
        => \A k \in 1..Len(task.actions) :
              LET action == task.actions[k]
              IN  action.id = last.actionId =>
                    /\ ~action.completed
                    /\ action.completedAt = NoTime
                    /\ action.completedBy = NoUser
                    /\ UrlsOn(action) \cap Range(input.data.attachments) = {}

----------------------------------------------------------------------------
(* Saving and loading a template in the editor (CreateActionTemplate):      *)
(* handleSubmit through actionTemplateService.createActionTemplate, and the *)
(* loadTemplate effect on the stored document.                              *)

\* the element types the legacy grouping tells apart
ElementTypes == {"text", "document", "approval"}

Typed(action, type) ==
    [id |-> action.id, dependsOn |-> action.dependsOn,
     nextActions |-> action.nextActions, completed |-> action.completed,
     type |-> type]

\* allElements of handleSubmit: the steps 1..numSteps that exist, in order
RECURSIVE allElements(_, _, _)
allElements(byStep, n, i) ==
    IF i > n THEN <<>>
    ELSE stepElements(byStep, i) \o allElements(byStep, n, i + 1)

\* workflowSteps of handleSubmit: one entry for each step that holds actions
RECURSIVE workflowSteps(_, _, _)
workflowSteps(byStep, n, i) ==
    IF i > n THEN <<>>
    ELSE IF i \in DOMAIN byStep /\ Len(byStep[i]) > 0
    THEN << [stepId |-> i,
             actions |-> [k \in 1..Len(byStep[i]) |-> byStep[i][k].id]] >>
         \o workflowSteps(byStep, n, i + 1)
    ELSE workflowSteps(byStep, n, i + 1)

\* newTemplate of handleSubmit
newTemplate(byStep, n) ==
    [exists |-> TRUE,
     elements |-> allElements(byStep, n, 1),
     hasWorkflow |-> TRUE,
     workflow |-> [steps |-> workflowSteps(byStep, n, 1)]]

\* a template stored before templates carried a workflow
LegacyTemplate(elements) ==
    [exists |-> TRUE, elements |-> elements, hasWorkflow |-> FALSE,
     workflow |-> [steps |-> <<>>]]

\* step.actions.map(id => allElements.find(..)).filter(Boolean)
stepActions(elements, step) ==
    LET found == [k \in 1..Len(step.actions) |->
                     find(elements, step.actions[k])]
    IN  SelectSeq(found, LAMBDA el : el # NoAction)

\* the legacy grouping that forgets the elements after the last
\* document / approval
groupSequentially_DropsRemainder(elements, k, steps, current) ==
    LET ends == {j \in 1..Len(elements) :
                    elements[j].type \in {"document", "approval"}}
    IN  IF ends = {} THEN <<>>
        ELSE <<SubSeq(elements, 1,
                      CHOOSE j \in ends : \A i \in ends : i <= j)>>

\* the legacy path of loadTemplate: a step ends after each document or
\* approval element, the remaining elements form the last step
RECURSIVE groupSequentially(_, _, _, _)
groupSequentially(elements, k, steps, current) ==
    IF k > Len(elements)
    THEN IF Len(current) > 0 THEN Append(steps, current) ELSE steps
    ELSE LET pushed == Append(current, elements[k])
         IN  IF elements[k].type \in {"document", "approval"}
             THEN groupSequentially(elements, k + 1,
                                    Append(steps, pushed), <<>>)
             ELSE groupSequentially(elements, k + 1, steps, pushed)

\* newElementsByStep and the number of steps loadTemplate sets
loadTemplate(templateData) ==
    IF templateData.hasWorkflow
    THEN [path |-> "workflow.steps",
          byStep |-> [t \in 1..Len(templateData.workflow.steps) |->
                        stepActions(templateData.elements,
                                    templateData.workflow.steps[t])],
          numSteps |-> Len(templateData.workflow.steps)]
    ELSE LET grouped == groupSequentially(templateData.elements, 1,
                                          <<>>, <<>>)
         IN  [path |-> "legacy",
              byStep |-> grouped,
              numSteps |-> IF Len(grouped) = 0 THEN 1 ELSE Len(grouped)]

\* the numSteps effect: steps 1..numSteps exist, the others are deleted
numStepsEffect(byStep, n) == [t \in 1..n |-> stepElements(byStep, t)]

----------------------------------------------------------------------------
(* SpecReload: an editor holding any typed collection in one or two steps, *)
(* or a fresh editor next to a stored legacy template; the user submits    *)
(* the form as a new template and selects the stored template.              *)

\* the collection in one step, or split over two
Layouts(c) ==
    {[t \in 1..1 |-> c]} \cup {InSteps(c, k) : k \in 0..Len(c)}

TypedCollections(c) ==
    { [k \in 1..Len(c) |-> Typed(c[k], types[k])]
        : types \in [1..Len(c) -> ElementTypes] }

SubmitCall(op, rejected, submitted, path) ==
    [op |-> op, rejected |-> rejected, submitted |-> submitted,
     path |-> path]

InitReload ==
    /\ \E c \in TaskCollectionsOver(MaxEditorIds, MaxEditorEdges)
                  \cup {Scenario1} :
       \E typed \in TypedCollections(c) :
          \/ /\ elementsByStep \in Layouts(typed)
             /\ numSteps = Len(elementsByStep)
             /\ template = NoDoc
          \/ /\ elementsByStep = [t \in 1..1 |-> <<>>]
             /\ numSteps = 1
             /\ template = LegacyTemplate(typed)
    /\ currentStep = 1
    /\ editorError = FALSE
    /\ nextId = 0
    /\ last = NoCall
    /\ task = NoDoc /\ calls = <<>>
    /\ PureIdle

\* handleSubmit with saveOption 'new' (or none): the title check, then
\* createActionTemplate (validation, setDoc), then the form reset
HandleSubmit(titleTaken) ==
    LET submitted == newTemplate(elementsByStep, numSteps)
        rejected ==
            \/ titleTaken
            \/ TemplateService_validateActionDependencies(submitted.elements)
    IN  /\ last' = SubmitCall("handleSubmit", rejected,
                              getAllActions(elementsByStep), "none")
        /\ IF rejected
           THEN /\ editorError' = TRUE
                /\ UNCHANGED <<template, elementsByStep, numSteps,
                               currentStep>>
           ELSE /\ template' = submitted
                /\ editorError' = FALSE
                /\ elementsByStep' = <<>>
                /\ numSteps' = 1
                /\ currentStep' = 1
        /\ UNCHANGED <<pureVars, task, calls, nextId>>

\* the loadTemplate effect for the stored template, followed by the
\* numSteps effect when the number of steps changed
LoadTemplate ==
    /\ template.exists
    /\ LET loaded == loadTemplate(template)
       IN  /\ numSteps' = loaded.numSteps
           /\ elementsByStep' =
                 IF loaded.numSteps # numSteps
                 THEN numStepsEffect(loaded.byStep, loaded.numSteps)
                 ELSE loaded.byStep
           /\ currentStep' =
                 IF loaded.numSteps # numSteps /\ 1 > loaded.numSteps
                 THEN loaded.numSteps ELSE 1
           /\ last' = SubmitCall("loadTemplate", FALSE, template.elements,
                                 loaded.path)
    /\ UNCHANGED <<editorError, nextId>>
    /\ UNCHANGED <<pureVars, task, template, calls>>

NextReload ==
    \/ \E titleTaken \in BOOLEAN : HandleSubmit(titleTaken)
    \/ LoadTemplate

SpecReload == InitReload /\ [][NextReload]_vars

\* id, dependsOn and completed of each action, in order
SavedFields(actions) ==
    [k \in 1..Len(actions) |->
        [id |-> actions[k].id, dependsOn |-> actions[k].dependsOn,
         completed |-> actions[k].completed]]

\* C24: a template saved by handleSubmit holds the editor's actions in
\* their order, and loading a stored template, through workflow.steps or
\* through the legacy grouping, gives the editor the stored actions in the
\* same order with the same id, dependsOn and completed: the round trip
\* changes no action and no dependsOn value.
C24_SaveLoadRoundTrip ==
    /\ (last.op = "handleSubmit" /\ ~last.rejected)
          => SavedFields(template.elements) = SavedFields(last.submitted)
    /\ last.op = "loadTemplate"
          => SavedFields(getAllActions(elementsByStep))
                = SavedFields(template.elements)

\* scenario 1 saved from two steps and loaded back through workflow.steps
C24_Witness ==
    /\ last.op = "loadTemplate"
    /\ last.path = "workflow.steps"
    /\ numSteps = 2
    /\ Ids(elementsByStep[1]) = {1, 2}
    /\ Ids(elementsByStep[2]) = {3, 4}
    /\ elementsByStep[1][2].dependsOn = <<1>>
    /\ elementsByStep[2][2].dependsOn = <<2, 3>>
    /\ Len(template.workflow.steps) = 2

\* a legacy template grouped into two steps by a document element
C24_WitnessLegacy ==
    /\ last.op = "loadTemplate"
    /\ last.path = "legacy"
    /\ numSteps = 2
    /\ Len(elementsByStep[1]) = 1
    /\ elementsByStep[1][1].type = "document"
    /\ Len(elementsByStep[2]) = 1
    /\ elementsByStep[2][1].dependsOn = <<elementsByStep[1][1].id>>

----------------------------------------------------------------------------
(* SpecRace: two service calls on one task, each made once, their reads    *)
(* and writes interleaved in every order, the outcome of each call kept.   *)
(* `input` gives each call its operation and action id.  The task starts   *)
(* in progress with any completed set sequential calls reach, or waiting   *)
(* for approval with every action completed.                                *)

RaceOps == {"completeTaskAction", "uncompleteTaskAction",
            "getTaskWorkflowStats"}

RaceCall(op, actionId, pc, error, snap, updatedActions, result) ==
    [op |-> op, actionId |-> actionId, pc |-> pc, error |-> error,
     snap |-> snap, updatedActions |-> updatedActions, result |-> result]

\* getTaskWorkflowStats over its two reads: taskData from getTaskById,
\* nextActions from the getTaskById inside getAvailableActions
statsOverReads(taskData, reread) ==
    [totalActions |-> Len(taskData.actions),
     completedActions |->
         Len(SelectSeq(taskData.actions, LAMBDA a : a.completed)),
     nextActions |-> getAvailableActions(reread.actions),
     blockedActions |->
         SelectSeq(taskData.actions,
                   LAMBDA a : isBlocked(taskData.actions, a))]

InitRace ==
    /\ \E c \in TaskCollectionsOver(MaxConcIds, MaxConcEdges) :
       \E done \in SUBSET Ids(c) : \E status \in {"in_progress",
                                                  "waiting_approval"} :
          /\ Completable(c, done)
          /\ status = "waiting_approval" => done = Ids(c)
          /\ task = TaskDoc(WithCompleted(c, done), status)
    /\ input \in [Procs -> [op : RaceOps, actionId : 1..MaxConcIds]]
    /\ calls = [p \in Procs |->
                  RaceCall(input[p].op, input[p].actionId, "start", "none",
                           NoDoc, <<>>, <<>>)]
    /\ outcome = NoOutcome
    /\ template = NoDoc
    /\ last = NoCall
    /\ EditorIdle

\* getDoc and the checks of completeTaskAction / uncompleteTaskAction up to
\* the updateDoc
ReadForWrite(p) ==
    LET call == calls[p]
        error == IF call.op = "completeTaskAction"
                 THEN completeError(task, call.actionId)
                 ELSE uncompleteError(task, call.actionId)
        updatedActions == setCompleted(task.actions, call.actionId,
                                       call.op = "completeTaskAction")
    IN  /\ call.pc = "start"
        /\ call.op \in {"completeTaskAction", "uncompleteTaskAction"}
        /\ calls' = [calls EXCEPT ![p] =
              IF error # "none"
              THEN RaceCall(call.op, call.actionId, "done", error, task,
                            <<>>, <<>>)
              ELSE RaceCall(call.op, call.actionId, "write", "none", task,
                            updatedActions, <<>>)]
        /\ UNCHANGED <<pureVars, task, template, last, editorVars>>

\* await updateDoc(taskRef, {actions: updatedActions, updatedAt})
WriteActionsRace(p) ==
    /\ calls[p].pc = "write"
    /\ task' = [task EXCEPT !.actions = writeBack(task.actions, calls[p])]
    /\ calls' = [calls EXCEPT ![p].pc =
                    IF statusToWrite(calls[p]) = "none"
                    THEN "done" ELSE "status"]
    /\ UNCHANGED <<pureVars, template, last, editorVars>>

\* await this.updateTask(taskId, {status}), which ends the call
WriteStatusRace(p) ==
    /\ calls[p].pc = "status"
    /\ task' = [task EXCEPT !.status = statusToWrite(calls[p])]
    /\ calls' = [calls EXCEPT ![p].pc = "done"]
    /\ UNCHANGED <<pureVars, template, last, editorVars>>

\* getTaskWorkflowStats: const taskData = await this.getTaskById(taskId)
ReadTaskData(p) ==
    /\ calls[p].pc = "start"
    /\ calls[p].op = "getTaskWorkflowStats"
    /\ calls' = [calls EXCEPT ![p].pc = "available", ![p].snap = task]
    /\ UNCHANGED <<pureVars, task, template, last, editorVars>>

\* getTaskWorkflowStats: await this.getAvailableActions(taskId) and the
\* rest of the call
ReadAvailable(p) ==
    /\ calls[p].pc = "available"
    /\ calls' = [calls EXCEPT
                    ![p].pc = "done",
                    ![p].result = statsOverReads(calls[p].snap, task)]
    /\ UNCHANGED <<pureVars, task, template, last, editorVars>>

NextRace ==
    \/ \E p \in Procs : ReadForWrite(p)
    \/ \E p \in Procs : WriteActionsRace(p)
    \/ \E p \in Procs : WriteStatusRace(p)
    \/ \E p \in Procs : ReadTaskData(p)
    \/ \E p \in Procs : ReadAvailable(p)

SpecRace == InitRace /\ [][NextRace]_vars

Returned(call) == call.pc = "done" /\ call.error = "none"

\* C25: when two concurrent completeTaskAction calls for two different
\* actions of a task have both returned successfully, both actions are
\* completed in the stored task.
C25_BothCompletionsStored ==
    (/\ \A p \in Procs : /\ Returned(calls[p])
                         /\ calls[p].op = "completeTaskAction"
     /\ calls["call1"].actionId # calls["call2"].actionId)
        => {calls[p].actionId : p \in Procs}
              \subseteq CompletedIds(task.actions)

\* C26: under any interleaving of completeTaskAction and
\* uncompleteTaskAction calls, once every call has finished, a task whose
\* status is waiting_approval has every action completed.
C26_WaitingApprovalMeansAllCompleted ==
    (/\ \A p \in Procs :
           /\ calls[p].pc = "done"
           /\ calls[p].op \in {"completeTaskAction", "uncompleteTaskAction"}
     /\ task.status = "waiting_approval")
        => \A k \in 1..Len(task.actions) : task.actions[k].completed

\* C27: the nextActions and blockedActions one getTaskWorkflowStats call
\* returns are disjoint and completedActions + |nextActions| +
\* |blockedActions| = totalActions, also when a completeTaskAction or
\* uncompleteTaskAction commits between the two reads of the call.
C27_StatsPartitionAcrossReads ==
    \A p \in Procs :
        (calls[p].op = "getTaskWorkflowStats" /\ calls[p].pc = "done")
            => LET stats == calls[p].result
               IN  /\ Ids(stats.nextActions) \cap Ids(stats.blockedActions)
                         = {}
                   /\ stats.completedActions + Len(stats.nextActions)
                         + Len(stats.blockedActions) = stats.totalActions

----------------------------------------------------------------------------
\* C28: in the template editor (SpecEditor), after any sequence of adding
\* and removing actions, saving dependencies from the dependency editor and
\* changing the number of steps, every id in any action's dependsOn is the
\* id of an action present in some step.
C28_EditorDependsOnIntact ==
    Intact(getAllActions(elementsByStep))

----------------------------------------------------------------------------
\* C29: for every acyclic collection and every dependency set proposed for
\* one of its actions, DependencyEditor.handleSave saves exactly when the
\* whole-collection checkForDependencyCycles of the template editor accepts
\* the collection with the proposed set substituted for that action.
C29_SaveAgreesWithWholeCheck ==
    (outcome.fn = "DependencyEditor.handleSave" /\ Acyclic(input.actions))
        => outcome.saved =
              ~Editor_checkForDependencyCycles(
                   withDependencies(input.actions, input.currentActionId,
                                    input.selectedDeps)).thrown

\* a save refused on an acyclic collection of three actions for a proposal
\* that closes a cycle through another action
C29_Witness ==
    /\ outcome.fn = "DependencyEditor.handleSave"
    /\ Acyclic(input.actions)
    /\ Len(input.actions) = 3
    /\ input.currentActionId \notin Range(input.selectedDeps)
    /\ HasCycle(withDependencies(input.actions, input.currentActionId,
                                 input.selectedDeps))
    /\ ~outcome.saved

\* a save accepted on an acyclic collection for a non-empty proposal
C29_WitnessSaved ==
    /\ outcome.fn = "DependencyEditor.handleSave"
    /\ Acyclic(input.actions)
    /\ input.actions[input.currentActionId].dependsOn # input.selectedDeps
    /\ Len(input.selectedDeps) = 2
    /\ outcome.saved

----------------------------------------------------------------------------
(* SpecStage: ActionView's WorkflowProgress rendered for a current action  *)
(* of an acyclic, referentially intact collection, next to the levels the  *)
(* WorkflowVisualizer computes for the same collection.                     *)

RECURSIVE workflowLoop(_, _, _)
\* while (currentLevel.length > 0) { levels.push(currentLevel); ... } of
\* organizeWorkflow
workflowLoop(allActions, levels, currentLevel) ==
    IF Len(currentLevel) = 0 THEN levels
    ELSE workflowLoop(allActions, Append(levels, currentLevel),
                      nextWorkflowLevel(allActions, currentLevel))

\* ActionView.tsx: const organizeWorkflow = () => {...}
organizeWorkflow(allActions) ==
    workflowLoop(allActions, <<>>, initialActions(allActions))

\* levels.findIndex(level => level.some(action => action.id === id)):
\* 0-based, -1 when no level holds the id
levelIndex(levels, id) ==
    LET holding == {k \in 1..Len(levels) : id \in Ids(levels[k])}
    IN  IF holding = {} THEN -1
        ELSE (CHOOSE k \in holding : \A j \in holding : k <= j) - 1

StageInput(allActions, currentAction) ==
    [allActions |-> allActions, currentAction |-> currentAction]

InitStage ==
    /\ \E c \in TaskCollections(MaxEdges) \cup {Scenario1} :
          /\ Acyclic(c) /\ Intact(c)
          /\ \E id \in Ids(c) : input = StageInput(c, id)
    /\ outcome = NoOutcome
    /\ ServiceIdle
    /\ EditorIdle

\* WorkflowProgress({currentAction, allActions}): nothing is rendered for
\* a single action
RenderWorkflowProgress ==
    /\ outcome = NoOutcome
    /\ Len(input.allActions) > 1
    /\ LET workflowLevels == organizeWorkflow(input.allActions)
       IN  outcome' = [fn |-> "WorkflowProgress",
                       levels |-> workflowLevels,
                       currentActionLevel |->
                           levelIndex(workflowLevels, input.currentAction)]
    /\ UNCHANGED <<input, serviceVars, editorVars>>

\* WorkflowVisualizer({actions}): actionLevels
RenderWorkflowVisualizer ==
    /\ outcome = NoOutcome
    /\ outcome' = [fn |-> "WorkflowVisualizer",
                   levels |-> actionLevels(input.allActions),
                   currentActionLevel |->
                       levelIndex(actionLevels(input.allActions),
                                  input.currentAction)]
    /\ UNCHANGED <<input, serviceVars, editorVars>>

NextStage ==
    \/ RenderWorkflowProgress
    \/ RenderWorkflowVisualizer

SpecStage == InitStage /\ [][NextStage]_vars

\* C30: for every acyclic, referentially intact collection organizeWorkflow
\* places each action in exactly one level, and the stage WorkflowProgress
\* shows for the current action is the action's level in the
\* WorkflowVisualizer's actionLevels.
C30_StageIsActionLevel ==
    outcome.fn = "WorkflowProgress"
        => /\ \A id \in Ids(input.allActions) :
                 Cardinality(PlacesOf(outcome.levels, id)) = 1
           /\ outcome.currentActionLevel =
                 levelIndex(actionLevels(input.allActions),
                            input.currentAction)

============================================================================
